---------------------------- MODULE Spec2Model ----------------------------
(***************************************************************************)
(* State-machine model of the Direct3D 12 context of src/src/graphics.rs:  *)
(* the resource and pipeline slot pools with generation-checked handles,   *)
(* the descriptor heaps, the per-frame linear upload heaps and the fence   *)
(* protocol between the recording thread and the GPU queue.                *)
(***************************************************************************)
EXTENDS Integers, Naturals, Sequences, FiniteSets, TLC

(***************************************************************************)
(* Sizes.  The source sizes the pools at 256 slots, the swap chain at 4    *)
(* buffers, the heaps at 1024 / 16384 descriptors and 32 KiB, and its      *)
(* generation counters are u16.  The model keeps the structure and         *)
(* represents each of these by a small size so that a full pool, a full    *)
(* heap and a counter overflow are all reachable.  The 256-byte upload     *)
(* alignment and the u32 width of the heap arithmetic are kept exactly.    *)
(***************************************************************************)
MAX_NUM_RESOURCES == 3
MAX_NUM_PIPELINES == 2
NUM_SWAP_BUFFERS == 2
GenerationModulus == 3
UPLOAD_HEAP_BLOCKS == 4
DESCRIPTOR_HEAP_CAPACITY == 3
MaxFrames == 3
MaxQueue == 3

VARIABLES
    pc,                    \* where the recording thread is
    ret,                   \* the last operation and what it returned
    resources,             \* resource_pool.resources
    resource_generations,  \* resource_pool.generations
    pipelines,             \* pipeline_pool.pipelines
    pipeline_generations,  \* pipeline_pool.generations
    pipeline_map,          \* pipeline_pool.map
    current_pipeline,      \* Dx12Context.current_pipeline
    stale_resource,        \* a resource handle kept after its destroy_resource
    stale_pipeline,        \* a pipeline handle kept after its destroy_pipeline
    stale_key,             \* the key stale_pipeline was cached under
    frame_index,           \* Dx12Context.frame_index
    num_frames,            \* Dx12Context.num_frames
    back_buffer_index,     \* Dx12Context.back_buffer_index
    cmdlist,               \* the command list: "closed" or "recording"
    queue,                 \* what the command queue has not executed yet
    fence,                 \* the completed value of frame_fence
    in_flight,             \* per frame index, the command lists submitted
                           \* while it was current: whether some have no
                           \* fence value yet, and the last fence value
    waiting,               \* the fence value a blocked call waits for, and
                           \* the request allocate_upload_memory will retry
    rtv_heap,              \* size of rtv_heap
    dsv_heap,              \* size of dsv_heap
    cpu_cbv_srv_uav_heap,  \* size of cpu_cbv_srv_uav_heap
    gpu_cbv_srv_uav_heaps, \* size of each shader-visible heap
    gpu_upload_memory_heaps, \* size of each upload heap
    descriptors_allocated, \* per descriptor heap, the counts handed out
                           \* since its last reset, added up
    upload_regions         \* per upload heap, the regions handed out since
                           \* its last reset

resource_vars == <<resources, resource_generations, stale_resource>>

pipeline_pool_vars == <<pipelines, pipeline_generations, pipeline_map,
                        stale_pipeline, stale_key>>

pipeline_vars == <<pipeline_pool_vars, current_pipeline>>

frame_vars == <<frame_index, num_frames, back_buffer_index, cmdlist, queue,
                fence, in_flight, waiting>>

cpu_heap_vars == <<rtv_heap, dsv_heap, cpu_cbv_srv_uav_heap>>

heap_vars == <<cpu_heap_vars, gpu_cbv_srv_uav_heaps, gpu_upload_memory_heaps,
               descriptors_allocated, upload_regions>>

vars == <<pc, ret, resource_vars, pipeline_vars, frame_vars, heap_vars>>

----------------------------------------------------------------------------
(* Handles *)

Handle(i, g) == [index |-> i, generation |-> g]

NoHandle == Handle(0, 0)

INVALID_PIPELINE == Handle(0, 0)

\* Every value a Dx12ResourceHandle can take, index MAX_NUM_RESOURCES + 1
\* standing for all indices past the end of the pool.
ResourceHandles ==
    [index : 0 .. MAX_NUM_RESOURCES + 1, generation : 0 .. GenerationModulus - 1]

PipelineHandles ==
    [index : 0 .. MAX_NUM_PIPELINES + 1, generation : 0 .. GenerationModulus - 1]

\* D3D12_RESOURCE_STATES values the model uses.  PRESENT is the same value
\* as COMMON.
D3D12_RESOURCE_STATE_COMMON == 0

D3D12_RESOURCE_STATE_PRESENT == 0

D3D12_RESOURCE_STATE_RENDER_TARGET == 4

D3D12_RESOURCE_STATE_COPY_DEST == 1024

\* ResourceState::new and PipelineState::new
NullResource ==
    [ptr |-> FALSE, state |-> D3D12_RESOURCE_STATE_COMMON, format |-> "UNKNOWN"]

NullPipeline == [pso |-> FALSE, rsignature |-> FALSE]

\* What an operation leaves in ret when it returns, and when an assertion
\* or an arithmetic overflow check stops the process.
Returned(op, h) ==
    [op |-> op, ok |-> TRUE, fault |-> "none", handle |-> h, value |-> << >>]

ReturnedValue(op, v) ==
    [op |-> op, ok |-> TRUE, fault |-> "none", handle |-> NoHandle, value |-> v]

Panicked(op, fault) ==
    [op |-> op, ok |-> FALSE, fault |-> fault, handle |-> NoHandle, value |-> << >>]

PanickedValue(op, fault, v) ==
    [op |-> op, ok |-> FALSE, fault |-> fault, handle |-> NoHandle, value |-> v]

----------------------------------------------------------------------------
(* Slot pools *)

\* generations[slot] += 1 on a u16: a build with overflow checks panics at
\* the largest value, a build without them wraps to 0.
GenerationOverflows(g) == g + 1 >= GenerationModulus

NextGeneration(g) == (g + 1) % GenerationModulus

\* The slot search of ResourcePool::add: the first index in 1 .. len-1 whose
\* pointer is null, 0 when there is none.
FindFreeResourceSlot(res) ==
    IF \E i \in 1 .. MAX_NUM_RESOURCES : ~res[i].ptr
    THEN CHOOSE i \in 1 .. MAX_NUM_RESOURCES :
            /\ ~res[i].ptr
            /\ \A j \in 1 .. i - 1 : res[j].ptr
    ELSE 0

\* ResourcePool::add on the pool (res, gens) in a build with (checks) or
\* without overflow checks: whether it returned, the pool it left and the
\* handle it returned.
ResourcePoolAdd(res, gens, checks, initial_state, format) ==
    LET slot_idx == FindFreeResourceSlot(res)
        stored == [res EXCEPT ![slot_idx] =
                      [ptr |-> TRUE, state |-> initial_state, format |-> format]]
    IN  IF ~(slot_idx > 0 /\ slot_idx <= MAX_NUM_RESOURCES)
        THEN [ok |-> FALSE, fault |-> "assert", resources |-> res,
              generations |-> gens, handle |-> NoHandle]
        ELSE IF checks /\ GenerationOverflows(gens[slot_idx])
        THEN [ok |-> FALSE, fault |-> "overflow", resources |-> stored,
              generations |-> gens, handle |-> NoHandle]
        ELSE [ok |-> TRUE, fault |-> "none", resources |-> stored,
              generations |-> [gens EXCEPT ![slot_idx] = NextGeneration(@)],
              handle |-> Handle(slot_idx, NextGeneration(gens[slot_idx]))]

\* The slot search of PipelinePool::add looks at the pso pointer only.
FindFreePipelineSlot(pipes) ==
    IF \E i \in 1 .. MAX_NUM_PIPELINES : ~pipes[i].pso
    THEN CHOOSE i \in 1 .. MAX_NUM_PIPELINES :
            /\ ~pipes[i].pso
            /\ \A j \in 1 .. i - 1 : pipes[j].pso
    ELSE 0

\* PipelinePool::add
PipelinePoolAdd(pipes, gens, checks) ==
    LET slot_idx == FindFreePipelineSlot(pipes)
        stored == [pipes EXCEPT ![slot_idx] = [pso |-> TRUE, rsignature |-> TRUE]]
    IN  IF ~(slot_idx > 0 /\ slot_idx <= MAX_NUM_PIPELINES)
        THEN [ok |-> FALSE, fault |-> "assert", pipelines |-> pipes,
              generations |-> gens, handle |-> NoHandle]
        ELSE IF checks /\ GenerationOverflows(gens[slot_idx])
        THEN [ok |-> FALSE, fault |-> "overflow", pipelines |-> stored,
              generations |-> gens, handle |-> NoHandle]
        ELSE [ok |-> TRUE, fault |-> "none", pipelines |-> stored,
              generations |-> [gens EXCEPT ![slot_idx] = NextGeneration(@)],
              handle |-> Handle(slot_idx, NextGeneration(gens[slot_idx]))]

\* validate_resource_state without its generation assertion.
ValidResourceAnyGeneration(h, res, gens) ==
    /\ h.index > 0 /\ h.index <= MAX_NUM_RESOURCES
    /\ res[h.index].ptr

\* Dx12Context::validate_resource_state: the three assertions.
ValidResource(h, res, gens) ==
    /\ h.index > 0 /\ h.index <= MAX_NUM_RESOURCES
    /\ h.generation = gens[h.index]
    /\ res[h.index].ptr

\* Dx12Context::validate_pipeline_state: the four assertions.
ValidPipeline(h, pipes, gens) ==
    /\ h.index > 0 /\ h.index <= MAX_NUM_PIPELINES
    /\ h.generation = gens[h.index]
    /\ pipes[h.index].pso
    /\ pipes[h.index].rsignature

----------------------------------------------------------------------------
(* Pipeline descriptions and their hash *)

\* A description is the vertex and pixel shader bytecode and the
\* fixed-function state, here one render-target format.
ShaderBinaries == {<<0>>, <<1>>, <<0, 1>>}

\* A D3D12_GRAPHICS_PIPELINE_STATE_DESC with its shader binaries: one
\* number for each group of fixed-size fields and the input layout as a
\* sequence of elements, each a semantic name and its fixed-size fields.
BaseGraphicsDesc ==
    [vs |-> <<0>>, ps |-> <<1>>,
     blend |-> 0, rasterizer |-> 0, depth_stencil |-> 0,
     input_layout |-> <<[name |-> <<0>>, format |-> 0]>>,
     rtv_format |-> 0, sample |-> 0]

GraphicsDescs == {BaseGraphicsDesc, [BaseGraphicsDesc EXCEPT !.rtv_format = 1]}

\* The descriptions that differ from BaseGraphicsDesc in one field.
InputLayouts ==
    {<< >>,
     <<[name |-> <<0>>, format |-> 0]>>,
     <<[name |-> <<0>>, format |-> 1]>>,
     <<[name |-> <<1>>, format |-> 0]>>,
     <<[name |-> <<0, 1>>, format |-> 0]>>,
     <<[name |-> <<0>>, format |-> 0], [name |-> <<0>>, format |-> 0]>>}

GraphicsDescVariants ==
    {BaseGraphicsDesc}
      \cup {[BaseGraphicsDesc EXCEPT !.vs = b] : b \in ShaderBinaries}
      \cup {[BaseGraphicsDesc EXCEPT !.ps = b] : b \in ShaderBinaries}
      \cup {[BaseGraphicsDesc EXCEPT !.blend = 1],
            [BaseGraphicsDesc EXCEPT !.rasterizer = 1],
            [BaseGraphicsDesc EXCEPT !.depth_stencil = 1],
            [BaseGraphicsDesc EXCEPT !.rtv_format = 1],
            [BaseGraphicsDesc EXCEPT !.sample = 1]}
      \cup {[BaseGraphicsDesc EXCEPT !.input_layout = l] : l \in InputLayouts}

ComputeDescs == [cs : {<<0>>}]

\* The bytes written for the input layout: for each element its semantic
\* name, without terminator or length, then its fixed-size fields.
RECURSIVE InputLayoutBytes(_)
InputLayoutBytes(elements) ==
    IF elements = << >> THEN << >>
    ELSE Head(elements).name \o <<Head(elements).format>>
            \o InputLayoutBytes(Tail(elements))

\* The bytes calc_graphics_pipeline_hash feeds to the hasher, in its order:
\* the two shader binaries back to back, then the fixed-function fields.
GraphicsHashInputWithoutFormats(desc) ==
    desc.vs \o desc.ps
       \o <<desc.blend, desc.rasterizer, desc.depth_stencil>>
       \o <<Len(desc.input_layout)>> \o InputLayoutBytes(desc.input_layout)
       \o <<desc.sample>>

GraphicsHashInput(desc) ==
    desc.vs \o desc.ps
       \o <<desc.blend, desc.rasterizer, desc.depth_stencil>>
       \o <<Len(desc.input_layout)>> \o InputLayoutBytes(desc.input_layout)
       \o <<desc.rtv_format, desc.sample>>

\* calc_compute_pipeline_hash feeds the compute shader binary alone.
ComputeHashInput(desc) == desc.cs

\* DefaultHasher::finish as a function of the bytes written: equal inputs
\* give equal keys and distinct inputs distinct keys (a 64-bit collision is
\* outside the model); the numeral has digits 1 to 3 in base 3, and one
\* input is taken to be the one whose key is 0.
RECURSIVE Numeral(_)
Numeral(bytes) ==
    IF bytes = <<>> THEN 0 ELSE (Head(bytes) + 1) + 3 * Numeral(Tail(bytes))

ZeroHashInput == <<0>>

HasherFinish(bytes) == IF bytes = ZeroHashInput THEN 0 ELSE Numeral(bytes)

calc_graphics_pipeline_hash(desc) == HasherFinish(GraphicsHashInput(desc))

calc_compute_pipeline_hash(desc) == HasherFinish(ComputeHashInput(desc))

----------------------------------------------------------------------------
(* u32 arithmetic *)

\* A u32 is kept as two 16-bit halves, so that every u32 value and every
\* intermediate sum stays inside the checker's integers.
HALF == 65536

U32(hi, lo) == [hi |-> hi, lo |-> lo]

U32Of(n) == U32(n \div HALF, n % HALF)

\* The integer a u32 stands for, for values below 2^31.
IntOf(x) == x.hi * HALF + x.lo

\* x + y on u32: the sum reduced modulo 2^32, and whether it overflowed.  A
\* build with overflow checks panics on overflow, one without keeps the
\* reduced sum.
U32Add(x, y) ==
    LET lo == x.lo + y.lo
        hi == x.hi + y.hi + lo \div HALF
    IN  [overflow |-> hi >= HALF, value |-> U32(hi % HALF, lo % HALF)]

U32Less(x, y) == x.hi < y.hi \/ (x.hi = y.hi /\ x.lo < y.lo)

\* x - y on u32: the difference reduced modulo 2^32, and whether it
\* underflowed.
U32Sub(x, y) ==
    LET lo == x.lo - y.lo
        borrow == IF lo < 0 THEN 1 ELSE 0
        hi == x.hi - y.hi - borrow
    IN  [overflow |-> hi < 0, value |-> U32((hi + HALF) % HALF, (lo + HALF) % HALF)]

\* x & 0xff and x & !0xff
LowByte(x) == x.lo % 256

ClearLowByte(x) == U32(x.hi, x.lo - (x.lo % 256))

\* The sum of two counts for book-keeping: exact below 2^32, and 2^32 for
\* every sum from there on.
CountAdd(x, y) ==
    LET lo == x.lo + y.lo
        hi == x.hi + y.hi + lo \div HALF
    IN  IF hi >= HALF THEN U32(HALF, 0) ELSE U32(hi, lo % HALF)

----------------------------------------------------------------------------
(* Heaps *)

\* Capacities, as Dx12Context::new passes them to the heaps' constructors.
UPLOAD_HEAP_CAPACITY == 256 * UPLOAD_HEAP_BLOCKS

RTV_HEAP_CAPACITY == NUM_SWAP_BUFFERS + DESCRIPTOR_HEAP_CAPACITY

DescriptorHeapNames == {"rtv", "dsv", "cpu_cbv_srv_uav", "gpu0", "gpu1"}

GpuHeapName(index) == IF index = 0 THEN "gpu0" ELSE "gpu1"

Capacity(heap) == IF heap = "rtv" THEN RTV_HEAP_CAPACITY ELSE DESCRIPTOR_HEAP_CAPACITY

\* The handle increment of the device, the same for every heap here.
descriptor_size == 32

\* The start handles of a descriptor heap: one address range per heap, a
\* GPU start of 0 for a heap that is not shader-visible.
DescriptorCpuBase(heap) ==
    CASE heap = "rtv" -> 8 * HALF
      [] heap = "dsv" -> 9 * HALF
      [] heap = "cpu_cbv_srv_uav" -> 10 * HALF
      [] heap = "gpu0" -> 11 * HALF
      [] heap = "gpu1" -> 12 * HALF

DescriptorGpuBase(heap) ==
    CASE heap = "gpu0" -> 13 * HALF
      [] heap = "gpu1" -> 14 * HALF
      [] OTHER -> 0

\* Base addresses the driver hands out: non-null, one range per heap.
UploadCpuBase(index) == (index + 1) * HALF

UploadGpuBase(index) == (index + 3) * HALF

\* The size GpuMemoryHeap::allocate works with after its rounding step.
RoundedSize(size) ==
    IF LowByte(size) # 0
    THEN [overflow |-> U32Add(size, U32Of(255)).overflow,
          value |-> ClearLowByte(U32Add(size, U32Of(255)).value)]
    ELSE [overflow |-> FALSE, value |-> size]

\* GpuMemoryHeap::allocate on heap `index` holding heap_size bytes: the
\* outcome ("ok", "sentinel" for the pair (null, 0), or "panic"), the
\* addresses returned and the heap's size afterwards.
GpuMemoryHeapAllocate(index, heap_size, size, checks) ==
    LET rounded == RoundedSize(size)
        sum == U32Add(U32Of(heap_size), rounded.value)
        failed(outcome, fault) ==
            [outcome |-> outcome, fault |-> fault, cpu_addr |-> 0, gpu_addr |-> 0,
             request |-> size, rounded |-> rounded.value, before |-> heap_size,
             size |-> heap_size]
    IN  IF ~U32Less(U32Of(0), size) THEN failed("panic", "assert")
        ELSE IF checks /\ rounded.overflow THEN failed("panic", "overflow")
        ELSE IF checks /\ sum.overflow THEN failed("panic", "overflow")
        ELSE IF ~U32Less(sum.value, U32Of(UPLOAD_HEAP_CAPACITY))
        THEN failed("sentinel", "none")
        ELSE [outcome |-> "ok", fault |-> "none",
              cpu_addr |-> UploadCpuBase(index) + heap_size,
              gpu_addr |-> UploadGpuBase(index) + heap_size,
              request |-> size, rounded |-> rounded.value, before |-> heap_size,
              size |-> IntOf(sum.value)]

\* DescriptorHeap::allocate_cpu_descriptors and allocate_gpu_descriptors on
\* a heap holding heap_size descriptors: the base assertions hold for the
\* heaps the context routes each call to, so what is left is the capacity
\* assertion and the two additions.
DescriptorHeapAllocate(heap, heap_size, num, checks) ==
    LET sum == U32Add(U32Of(heap_size), num)
    IN  IF checks /\ sum.overflow
        THEN [ok |-> FALSE, fault |-> "overflow", size |-> heap_size]
        ELSE IF ~U32Less(sum.value, U32Of(Capacity(heap)))
        THEN [ok |-> FALSE, fault |-> "assert", size |-> heap_size]
        ELSE [ok |-> TRUE, fault |-> "none", size |-> IntOf(sum.value)]

----------------------------------------------------------------------------
(* Construction *)

\* Dx12Context::new adds the swap-chain buffers to the empty pool one after
\* the other, each in state PRESENT.
RECURSIVE AddSwapBuffers(_, _, _)
AddSwapBuffers(res, gens, n) ==
    IF n = 0 THEN [resources |-> res, generations |-> gens]
    ELSE LET r == ResourcePoolAdd(res, gens, FALSE, D3D12_RESOURCE_STATE_PRESENT,
                                  "R8G8B8A8_UNORM")
         IN  AddSwapBuffers(r.resources, r.generations, n - 1)

InitialResourcePool ==
    AddSwapBuffers([i \in 0 .. MAX_NUM_RESOURCES |-> NullResource],
                   [i \in 0 .. MAX_NUM_RESOURCES |-> 0],
                   NUM_SWAP_BUFFERS)

\* Dx12Context.swap_buffers: the handles the adds of the swap-chain
\* buffers returned, in the order of the buffers.
swap_buffers ==
    [i \in 0 .. NUM_SWAP_BUFFERS - 1 |->
        LET before == AddSwapBuffers([j \in 0 .. MAX_NUM_RESOURCES |-> NullResource],
                                     [j \in 0 .. MAX_NUM_RESOURCES |-> 0], i)
        IN  ResourcePoolAdd(before.resources, before.generations, FALSE,
                            D3D12_RESOURCE_STATE_PRESENT, "R8G8B8A8_UNORM").handle]

\* The render-target views Dx12Context::new creates: the handle starts at
\* the range allocated from the empty rtv_heap and moves on by
\* descriptor_size after the view of each buffer; for each address the
\* buffer whose view is there.
RECURSIVE CreateRenderTargetViews(_, _, _)
CreateRenderTargetViews(views, handle, i) ==
    IF i = NUM_SWAP_BUFFERS THEN views
    ELSE CreateRenderTargetViews([a \in DOMAIN views \cup {handle} |->
                                     IF a = handle THEN i ELSE views[a]],
                                 handle + descriptor_size, i + 1)

render_target_views ==
    CreateRenderTargetViews(<< >>, DescriptorCpuBase("rtv") + 0 * descriptor_size, 0)

\* What the command queue holds: command lists, tagged with the frame index
\* they were submitted under, and fence signals.
ListItem(frame) == [kind |-> "list", frame |-> frame, value |-> 0]

SignalItem(value) == [kind |-> "signal", frame |-> 0, value |-> value]

\* What ret holds while a call is in progress.
Called(op) == [op |-> op, ok |-> TRUE, fault |-> "none", handle |-> NoHandle,
               value |-> << >>]

NoLists == [pending |-> FALSE, value |-> 0]

NotWaiting == [value |-> 0, size |-> U32Of(0), checks |-> FALSE]

\* The command list is created and closed; nothing
\* has been submitted and the fence is at 0.
InitFrames ==
    /\ frame_index = 0
    /\ num_frames = 0
    /\ back_buffer_index = 0
    /\ cmdlist = "closed"
    /\ queue = << >>
    /\ fence = 0
    /\ in_flight = [i \in 0 .. 1 |-> NoLists]
    /\ waiting = NotWaiting

\* The heaps are created empty; the render-target views of the swap-chain
\* buffers are then allocated from rtv_heap.
InitHeaps ==
    /\ rtv_heap = DescriptorHeapAllocate("rtv", 0, U32Of(NUM_SWAP_BUFFERS), FALSE).size
    /\ dsv_heap = 0
    /\ cpu_cbv_srv_uav_heap = 0
    /\ gpu_cbv_srv_uav_heaps = [i \in 0 .. 1 |-> 0]
    /\ gpu_upload_memory_heaps = [i \in 0 .. 1 |-> 0]
    /\ descriptors_allocated =
           [h \in DescriptorHeapNames |->
               IF h = "rtv" THEN U32Of(NUM_SWAP_BUFFERS) ELSE U32Of(0)]
    /\ upload_regions = [i \in 0 .. 1 |-> {}]

Init ==
    /\ pc = "running"
    /\ ret = Returned("new", NoHandle)
    /\ resources = InitialResourcePool.resources
    /\ resource_generations = InitialResourcePool.generations
    /\ pipelines = [i \in 0 .. MAX_NUM_PIPELINES |-> NullPipeline]
    /\ pipeline_generations = [i \in 0 .. MAX_NUM_PIPELINES |-> 0]
    /\ pipeline_map = << >>
    /\ current_pipeline = INVALID_PIPELINE
    /\ stale_resource = NoHandle
    /\ stale_pipeline = NoHandle
    /\ stale_key = 0
    /\ InitFrames
    /\ InitHeaps

----------------------------------------------------------------------------
(* Resource operations *)

InitialStates == {D3D12_RESOURCE_STATE_COPY_DEST}

TargetStates ==
    {D3D12_RESOURCE_STATE_COPY_DEST, D3D12_RESOURCE_STATE_RENDER_TARGET,
     D3D12_RESOURCE_STATE_PRESENT}

\* Dx12Context::create_committed_resource
CreateCommittedResource ==
    /\ pc = "running"
    /\ \E initial_state \in InitialStates, checks \in BOOLEAN :
        LET r == ResourcePoolAdd(resources, resource_generations, checks,
                                 initial_state, "UNKNOWN")
        IN  /\ resources' = r.resources
            /\ resource_generations' = r.generations
            /\ pc' = IF r.ok THEN "running" ELSE "panicked"
            /\ ret' = IF r.ok THEN Returned("create_committed_resource", r.handle)
                      ELSE Panicked("create_committed_resource", r.fault)
    /\ UNCHANGED <<stale_resource, pipeline_vars, frame_vars, heap_vars>>

\* Dx12Context::resource
Resource(h) ==
    /\ pc = "running"
    /\ IF ValidResource(h, resources, resource_generations)
       THEN pc' = "running" /\ ret' = Returned("resource", NoHandle)
       ELSE pc' = "panicked" /\ ret' = Panicked("resource", "validate")
    /\ UNCHANGED <<resource_vars, pipeline_vars, frame_vars, heap_vars>>

\* A destroy_resource that resets the tracked state of every slot.
ReleasedWithEveryStateReset(res, h) ==
    [i \in DOMAIN res |->
        IF i = h.index THEN NullResource
        ELSE [res[i] EXCEPT !.state = D3D12_RESOURCE_STATE_COMMON]]

\* The slot after WeakPtr::release and the two field resets of
\* destroy_resource.
ReleasedResource(res, h) == [res EXCEPT ![h.index] = NullResource]

\* Dx12Context::destroy_resource.  refcount is what Release returns: it is
\* not 0 when something else still holds the native object, and the
\* assertion then stops the process after the pointer was cleared.  keep
\* says whether the application holds on to the handle it destroyed.
DestroyResource(h, keep) ==
    /\ pc = "running"
    /\ \E refcount \in {0, 1} :
        IF ~ValidResource(h, resources, resource_generations)
        THEN /\ pc' = "panicked"
             /\ ret' = Panicked("destroy_resource", "validate")
             /\ UNCHANGED <<resources, stale_resource>>
        ELSE IF refcount # 0
        THEN /\ pc' = "panicked"
             /\ ret' = Panicked("destroy_resource", "refcount")
             /\ resources' = [resources EXCEPT ![h.index].ptr = FALSE]
             /\ UNCHANGED stale_resource
        ELSE /\ pc' = "running"
             /\ ret' = Returned("destroy_resource", NoHandle)
             /\ resources' = ReleasedResource(resources, h)
             /\ stale_resource' =
                    IF keep /\ stale_resource = NoHandle THEN h
                    ELSE stale_resource
    /\ UNCHANGED <<resource_generations, pipeline_vars, frame_vars, heap_vars>>

\* The call transition_barrier records in the command list: one transition
\* barrier for the resource in a slot.
ResourceBarrier(slot, state_before, state_after) ==
    [call |-> "ResourceBarrier", resource |-> slot,
     StateBefore |-> state_before, StateAfter |-> state_after]

\* A transition_barrier that does not compare the states.
TransitionBarrierAlways(h, state_after) ==
    /\ pc = "running"
    /\ IF ~ValidResource(h, resources, resource_generations)
       THEN /\ pc' = "panicked"
            /\ ret' = Panicked("transition_barrier", "validate")
            /\ UNCHANGED resources
       ELSE /\ pc' = "running"
            /\ ret' = ReturnedValue("transition_barrier",
                         <<ResourceBarrier(h.index, resources[h.index].state,
                                           state_after)>>)
            /\ resources' = [resources EXCEPT ![h.index].state = state_after]
    /\ UNCHANGED <<resource_generations, stale_resource, pipeline_vars, frame_vars,
                   heap_vars>>

\* A transition_barrier that records COMMON as the state before.
TransitionBarrierFromCommon(h, state_after) ==
    /\ pc = "running"
    /\ IF ~ValidResource(h, resources, resource_generations)
       THEN /\ pc' = "panicked"
            /\ ret' = Panicked("transition_barrier", "validate")
            /\ UNCHANGED resources
       ELSE /\ pc' = "running"
            /\ IF resources[h.index].state # state_after
               THEN /\ ret' = ReturnedValue("transition_barrier",
                                 <<ResourceBarrier(h.index, D3D12_RESOURCE_STATE_COMMON,
                                                   state_after)>>)
                    /\ resources' = [resources EXCEPT ![h.index].state = state_after]
               ELSE /\ ret' = ReturnedValue("transition_barrier", << >>)
                    /\ UNCHANGED resources
    /\ UNCHANGED <<resource_generations, stale_resource, pipeline_vars, frame_vars,
                   heap_vars>>

\* Dx12Context::transition_barrier
TransitionBarrier(h, state_after) ==
    /\ pc = "running"
    /\ IF ~ValidResource(h, resources, resource_generations)
       THEN /\ pc' = "panicked"
            /\ ret' = Panicked("transition_barrier", "validate")
            /\ UNCHANGED resources
       ELSE /\ pc' = "running"
            /\ IF resources[h.index].state # state_after
               THEN /\ ret' = ReturnedValue("transition_barrier",
                                 <<ResourceBarrier(h.index, resources[h.index].state,
                                                   state_after)>>)
                    /\ resources' = [resources EXCEPT ![h.index].state = state_after]
               ELSE /\ ret' = ReturnedValue("transition_barrier", << >>)
                    /\ UNCHANGED resources
    /\ UNCHANGED <<resource_generations, stale_resource, pipeline_vars, frame_vars,
                   heap_vars>>

----------------------------------------------------------------------------
(* Pipeline operations *)

\* map.insert(hash, handle)
MapInsert(map, hash, handle) ==
    [k \in DOMAIN map \cup {hash} |-> IF k = hash THEN handle ELSE map[k]]

\* map.remove(&key)
MapRemove(map, key) == [k \in DOMAIN map \ {key} |-> map[k]]

\* A create_*_pipeline that does not look the hash up.
CreatePipelineWithoutLookup(op, hash) ==
    \E checks \in BOOLEAN :
       LET r == PipelinePoolAdd(pipelines, pipeline_generations, checks)
       IN  /\ pipelines' = r.pipelines
           /\ pipeline_generations' = r.generations
           /\ pipeline_map' = IF r.ok THEN MapInsert(pipeline_map, hash, r.handle)
                              ELSE pipeline_map
           /\ pc' = IF r.ok THEN "running" ELSE "panicked"
           /\ ret' = IF r.ok THEN Returned(op, r.handle) ELSE Panicked(op, r.fault)

\* The body shared by create_graphics_pipeline and create_compute_pipeline
\* once the hash is known.
GetOrCreatePipeline(op, hash) ==
    IF hash \in DOMAIN pipeline_map
    THEN /\ pc' = "running"
         /\ ret' = Returned(op, pipeline_map[hash])
         /\ UNCHANGED <<pipelines, pipeline_generations, pipeline_map>>
    ELSE \E checks \in BOOLEAN :
         LET r == PipelinePoolAdd(pipelines, pipeline_generations, checks)
         IN  /\ pipelines' = r.pipelines
             /\ pipeline_generations' = r.generations
             /\ pipeline_map' = IF r.ok THEN MapInsert(pipeline_map, hash, r.handle)
                                ELSE pipeline_map
             /\ pc' = IF r.ok THEN "running" ELSE "panicked"
             /\ ret' = IF r.ok THEN Returned(op, r.handle) ELSE Panicked(op, r.fault)

\* Dx12Context::create_graphics_pipeline
CreateGraphicsPipeline(desc) ==
    /\ pc = "running"
    /\ GetOrCreatePipeline("create_graphics_pipeline",
                           calc_graphics_pipeline_hash(desc))
    /\ UNCHANGED <<resource_vars, current_pipeline, stale_pipeline, stale_key, frame_vars,
                   heap_vars>>

\* Dx12Context::create_compute_pipeline
CreateComputePipeline(desc) ==
    /\ pc = "running"
    /\ GetOrCreatePipeline("create_compute_pipeline",
                           calc_compute_pipeline_hash(desc))
    /\ UNCHANGED <<resource_vars, current_pipeline, stale_pipeline, stale_key, frame_vars,
                   heap_vars>>

\* The keys the reverse lookup of destroy_pipeline can stop at: the map is
\* walked in no particular order up to the first entry whose value is handle,
\* and key_to_remove stays 0 when there is none.
KeysToRemove(map, handle) ==
    IF \E k \in DOMAIN map : map[k] = handle
    THEN {k \in DOMAIN map : map[k] = handle}
    ELSE {0}

\* A slot whose pipeline state only has been released.
PipelineWithRootSignatureKept == [pso |-> FALSE, rsignature |-> TRUE]

\* What the two release calls of destroy_pipeline leave in the slot.
ReleasedPipeline == [pso |-> FALSE, rsignature |-> FALSE]

\* Dx12Context::destroy_pipeline
DestroyPipeline(h, keep) ==
    /\ pc = "running"
    /\ \E key_to_remove \in KeysToRemove(pipeline_map, h), refcount \in {0, 1} :
        IF ~ValidPipeline(h, pipelines, pipeline_generations)
        THEN /\ pc' = "panicked"
             /\ ret' = Panicked("destroy_pipeline", "validate")
             /\ UNCHANGED <<pipelines, pipeline_map, stale_pipeline, stale_key>>
        ELSE IF key_to_remove = 0
        THEN /\ pc' = "panicked"
             /\ ret' = Panicked("destroy_pipeline", "assert")
             /\ UNCHANGED <<pipelines, pipeline_map, stale_pipeline, stale_key>>
        ELSE /\ pipeline_map' = MapRemove(pipeline_map, key_to_remove)
             /\ pipelines' = [pipelines EXCEPT ![h.index] = ReleasedPipeline]
             /\ IF refcount # 0
                THEN /\ pc' = "panicked"
                     /\ ret' = Panicked("destroy_pipeline", "refcount")
                     /\ UNCHANGED <<stale_pipeline, stale_key>>
                ELSE /\ pc' = "running"
                     /\ ret' = Returned("destroy_pipeline", NoHandle)
                     /\ stale_pipeline' =
                            IF keep /\ stale_pipeline = NoHandle THEN h
                            ELSE stale_pipeline
                     /\ stale_key' =
                            IF keep /\ stale_pipeline = NoHandle THEN key_to_remove
                            ELSE stale_key
    /\ UNCHANGED <<resource_vars, pipeline_generations, current_pipeline,
                   frame_vars, heap_vars>>

\* The calls set_graphics_pipeline records in the command list for the
\* pipeline in a slot.
BindPipeline(slot) ==
    <<[call |-> "SetPipelineState", pipeline |-> slot],
      [call |-> "SetGraphicsRootSignature", pipeline |-> slot]>>

\* Dx12Context::set_graphics_pipeline
SetGraphicsPipeline(h) ==
    /\ pc = "running"
    /\ IF ~ValidPipeline(h, pipelines, pipeline_generations)
       THEN /\ pc' = "panicked"
            /\ ret' = Panicked("set_graphics_pipeline", "validate")
            /\ UNCHANGED current_pipeline
       ELSE /\ pc' = "running"
            /\ IF h # current_pipeline
               THEN /\ ret' = ReturnedValue("set_graphics_pipeline",
                                            BindPipeline(h.index))
                    /\ current_pipeline' = h
               ELSE /\ ret' = ReturnedValue("set_graphics_pipeline", << >>)
                    /\ UNCHANGED current_pipeline
    /\ UNCHANGED <<resource_vars, pipeline_pool_vars, frame_vars, heap_vars>>

----------------------------------------------------------------------------
(* Command list, queue and fence *)

pool_vars == <<resource_vars, pipeline_pool_vars>>

sync_vars == <<frame_index, num_frames, back_buffer_index, queue, fence,
               in_flight, waiting>>

\* A new_command_list that leaves current_pipeline as it is.
NewCommandListKeepsPipeline ==
    /\ pc = "running"
    /\ cmdlist' = "recording"
    /\ ret' = Returned("new_command_list", NoHandle)
    /\ UNCHANGED <<pc, pool_vars, current_pipeline, sync_vars, heap_vars>>

\* Dx12Context::new_command_list.  The list is recording afterwards (on a
\* list that was still recording the Reset calls fail, their results are
\* dropped and it goes on recording) and the pipeline binding is forgotten.
NewCommandList ==
    /\ pc = "running"
    /\ cmdlist' = "recording"
    /\ current_pipeline' = INVALID_PIPELINE
    /\ ret' = Returned("new_command_list", NoHandle)
    /\ UNCHANGED <<pc, pool_vars, sync_vars, heap_vars>>

\* Dx12GraphicsCommandList::close asserts that Close succeeded, which it
\* does on a recording list only.
Close ==
    /\ pc = "running"
    /\ IF cmdlist = "recording"
       THEN /\ cmdlist' = "closed"
            /\ ret' = Returned("close", NoHandle)
            /\ UNCHANGED pc
       ELSE /\ pc' = "panicked"
            /\ ret' = Panicked("close", "assert")
            /\ UNCHANGED cmdlist
    /\ UNCHANGED <<pool_vars, current_pipeline, sync_vars, heap_vars>>

\* A submission puts the list on the queue under the current frame index.
Submitted(index) == [in_flight EXCEPT ![index].pending = TRUE]

\* A Signal(v) gives every list submitted before it the fence value v.
Signalled(lists, v) ==
    [i \in 0 .. 1 |-> IF lists[i].pending
                      THEN [pending |-> FALSE, value |-> v]
                      ELSE lists[i]]

\* Dx12CommandQueue::execute_command_lists with the closed command list.
ExecuteCommandLists ==
    /\ pc = "running"
    /\ cmdlist = "closed"
    /\ Len(queue) < MaxQueue
    /\ queue' = Append(queue, ListItem(frame_index))
    /\ in_flight' = Submitted(frame_index)
    /\ ret' = Returned("execute_command_lists", NoHandle)
    /\ UNCHANGED <<pc, pool_vars, pipeline_vars, frame_index, num_frames,
                   back_buffer_index, cmdlist, fence, waiting, heap_vars>>

\* The GPU executes the head of the queue; executing a signal sets the
\* fence.
GpuExecute ==
    /\ queue # << >>
    /\ queue' = Tail(queue)
    /\ fence' = IF Head(queue).kind = "signal" THEN Head(queue).value ELSE fence
    /\ UNCHANGED <<pc, ret, pool_vars, pipeline_vars, frame_index, num_frames,
                   back_buffer_index, cmdlist, in_flight, waiting, heap_vars>>

\* size = 0 on the two per-frame heaps of frame `index`.
ResetFrameHeaps(index) ==
    /\ gpu_cbv_srv_uav_heaps' = [gpu_cbv_srv_uav_heaps EXCEPT ![index] = 0]
    /\ gpu_upload_memory_heaps' = [gpu_upload_memory_heaps EXCEPT ![index] = 0]
    /\ descriptors_allocated' =
           [descriptors_allocated EXCEPT ![GpuHeapName(index)] = U32Of(0)]
    /\ upload_regions' = [upload_regions EXCEPT ![index] = {}]
    /\ UNCHANGED cpu_heap_vars

\* A present_frame that lets the CPU run one more frame ahead.
MaxFramesAheadPlusOne == 2 + 1

\* The threshold of present_frame: from this many frames ahead of the GPU
\* on, the CPU waits.
MaxFramesAhead == 2

\* What ret holds while a call is in progress that has made calls on the
\* swap chain and the queue.
CalledWith(op, calls) == [Called(op) EXCEPT !.value = calls]

\* The calls present_frame makes before it reads the completed value, for
\* the frame counter value it has just stored.
PresentFrameCalls(frame) ==
    <<[call |-> "Present", frame |-> frame], [call |-> "Signal", frame |-> frame]>>

\* A present_frame that signals before it presents.
PresentFrameSignalFirst ==
    /\ pc = "running"
    /\ num_frames < MaxFrames
    /\ Len(queue) < MaxQueue
    /\ num_frames' = num_frames + 1
    /\ queue' = Append(queue, SignalItem(num_frames + 1))
    /\ in_flight' = Signalled(in_flight, num_frames + 1)
    /\ pc' = "present_frame"
    /\ ret' = CalledWith("present_frame",
                         <<[call |-> "Signal", frame |-> num_frames + 1],
                           [call |-> "Present", frame |-> num_frames + 1]>>)
    /\ UNCHANGED <<pool_vars, pipeline_vars, frame_index, back_buffer_index,
                   cmdlist, fence, waiting, heap_vars>>

\* Dx12Context::present_frame up to its Signal: the counter, Present, then
\* Signal, which puts the fence value in the queue.
PresentFrame ==
    /\ pc = "running"
    /\ num_frames < MaxFrames
    /\ Len(queue) < MaxQueue
    /\ num_frames' = num_frames + 1
    /\ queue' = Append(queue, SignalItem(num_frames + 1))
    /\ in_flight' = Signalled(in_flight, num_frames + 1)
    /\ pc' = "present_frame"
    /\ ret' = CalledWith("present_frame", PresentFrameCalls(num_frames + 1))
    /\ UNCHANGED <<pool_vars, pipeline_vars, frame_index, back_buffer_index,
                   cmdlist, fence, waiting, heap_vars>>

\* A present_frame that resets the heaps of the frame index it leaves.
PresentFrameReturnResetsPrevious ==
    /\ frame_index' = (frame_index + 1) % 2
    /\ back_buffer_index' = (back_buffer_index + 1) % NUM_SWAP_BUFFERS
    /\ ResetFrameHeaps(frame_index)
    /\ pc' = "running"
    /\ ret' = Returned("present_frame", NoHandle)

\* A present_frame that stays on its frame index.
PresentFrameReturnKeepsIndex ==
    /\ frame_index' = frame_index
    /\ back_buffer_index' = (back_buffer_index + 1) % NUM_SWAP_BUFFERS
    /\ ResetFrameHeaps(frame_index)
    /\ pc' = "running"
    /\ ret' = Returned("present_frame", NoHandle)

\* The rest of present_frame after the wait, if any: the frame index
\* flips, the swap chain names its next buffer and the heaps of the new
\* frame index are reset.
PresentFrameReturn ==
    /\ frame_index' = (frame_index + 1) % 2
    /\ back_buffer_index' = (back_buffer_index + 1) % NUM_SWAP_BUFFERS
    /\ ResetFrameHeaps((frame_index + 1) % 2)
    /\ pc' = "running"
    /\ ret' = Returned("present_frame", NoHandle)

\* A present_frame that waits for the frame after the one it signalled.
WaitValueNotSignalled(gpu_num_frames) == gpu_num_frames + MaxFramesAhead + 1

\* The fence value present_frame waits for when it waits: the one after the
\* completed value it read.
PresentFrameWaitValue(gpu_num_frames) == gpu_num_frames + 1

\* present_frame reads the completed value and decides whether to wait.
PresentFrameObserve ==
    /\ pc = "present_frame"
    /\ IF num_frames - fence >= MaxFramesAhead
       THEN /\ pc' = "present_frame_wait"
            /\ waiting' = [NotWaiting EXCEPT !.value = PresentFrameWaitValue(fence)]
            /\ UNCHANGED <<ret, frame_index, back_buffer_index, heap_vars>>
       ELSE /\ PresentFrameReturn
            /\ UNCHANGED waiting
    /\ UNCHANGED <<pool_vars, pipeline_vars, num_frames, cmdlist, queue, fence,
                   in_flight>>

\* A present_frame whose wait returns without the fence having moved.
PresentFrameResumeEarly ==
    /\ pc = "present_frame_wait"
    /\ PresentFrameReturn
    /\ waiting' = NotWaiting
    /\ UNCHANGED <<pool_vars, pipeline_vars, num_frames, cmdlist, queue, fence,
                   in_flight>>

\* The wait of present_frame ends once the fence has reached its target.
PresentFrameResume ==
    /\ pc = "present_frame_wait"
    /\ fence >= waiting.value
    /\ PresentFrameReturn
    /\ waiting' = NotWaiting
    /\ UNCHANGED <<pool_vars, pipeline_vars, num_frames, cmdlist, queue, fence,
                   in_flight>>

\* A finish that signals the frame counter without having counted.
FinishWithoutCount ==
    /\ pc = "running"
    /\ num_frames < MaxFrames
    /\ Len(queue) < MaxQueue
    /\ queue' = Append(queue, SignalItem(num_frames))
    /\ in_flight' = Signalled(in_flight, num_frames)
    /\ waiting' = [NotWaiting EXCEPT !.value = num_frames]
    /\ pc' = "finish"
    /\ ret' = Called("finish")
    /\ UNCHANGED <<pool_vars, pipeline_vars, frame_index, num_frames,
                   back_buffer_index, cmdlist, fence, heap_vars>>

\* Dx12Context::finish up to its wait.
Finish ==
    /\ pc = "running"
    /\ num_frames < MaxFrames
    /\ Len(queue) < MaxQueue
    /\ num_frames' = num_frames + 1
    /\ queue' = Append(queue, SignalItem(num_frames + 1))
    /\ in_flight' = Signalled(in_flight, num_frames + 1)
    /\ waiting' = [NotWaiting EXCEPT !.value = num_frames + 1]
    /\ pc' = "finish"
    /\ ret' = Called("finish")
    /\ UNCHANGED <<pool_vars, pipeline_vars, frame_index, back_buffer_index,
                   cmdlist, fence, heap_vars>>

\* A finish whose wait returns without the fence having moved.
FinishResumeEarly ==
    /\ pc = "finish"
    /\ ResetFrameHeaps(frame_index)
    /\ waiting' = NotWaiting
    /\ pc' = "running"
    /\ ret' = Returned("finish", NoHandle)
    /\ UNCHANGED <<pool_vars, pipeline_vars, frame_index, num_frames,
                   back_buffer_index, cmdlist, queue, fence, in_flight>>

\* The wait of finish ends; the heaps of the current frame index are reset
\* and the frame index stays.
FinishResume ==
    /\ pc = "finish"
    /\ fence >= waiting.value
    /\ ResetFrameHeaps(frame_index)
    /\ waiting' = NotWaiting
    /\ pc' = "running"
    /\ ret' = Returned("finish", NoHandle)
    /\ UNCHANGED <<pool_vars, pipeline_vars, frame_index, num_frames,
                   back_buffer_index, cmdlist, queue, fence, in_flight>>

\* A back_buffer that takes the handle of the next buffer.
BackBufferOffByOne ==
    /\ pc = "running"
    /\ ret' = [ReturnedValue("back_buffer",
                             DescriptorCpuBase("rtv")
                                + back_buffer_index * descriptor_size)
                  EXCEPT !.handle = swap_buffers[(back_buffer_index + 1)
                                                    % NUM_SWAP_BUFFERS]]
    /\ UNCHANGED <<pc, pool_vars, pipeline_vars, frame_vars, heap_vars>>

\* Dx12Context::back_buffer: the handle of the current back buffer and the
\* address of its descriptor in rtv_heap.
BackBuffer ==
    /\ pc = "running"
    /\ ret' = [ReturnedValue("back_buffer",
                             DescriptorCpuBase("rtv")
                                + back_buffer_index * descriptor_size)
                  EXCEPT !.handle = swap_buffers[back_buffer_index]]
    /\ UNCHANGED <<pc, pool_vars, pipeline_vars, frame_vars, heap_vars>>

----------------------------------------------------------------------------
(* Heap operations *)

\* Request sizes: small ones, aligned and not, one the size of a whole
\* heap, and two near the top of u32.
UploadSizes ==
    {U32Of(0), U32Of(1), U32Of(256), U32Of(300), U32Of(UPLOAD_HEAP_CAPACITY),
     U32(HALF - 1, HALF - 256), U32(HALF - 1, HALF - 1)}

\* The sizes that take the frame protocol through both paths of
\* allocate_upload_memory.
FrameUploadSizes == {U32Of(256), U32Of(300)}

DescriptorCounts == {U32Of(1), U32Of(2), U32(HALF - 1, HALF - 1)}

DescriptorHeapTypes == {"RTV", "DSV", "CBV_SRV_UAV", "SAMPLER"}

\* The region a successful GpuMemoryHeap::allocate handed out.
Region(a) == [offset |-> a.before, size |-> a.rounded]

\* What allocate_upload_memory reports: the addresses it returns and every
\* call of GpuMemoryHeap::allocate it made, in order.
UploadResult(index, size, flushed, allocations) ==
    [index |-> index, size |-> size, flushed |-> flushed,
     cpu_addr |-> allocations[Len(allocations)].cpu_addr,
     gpu_addr |-> allocations[Len(allocations)].gpu_addr,
     allocations |-> allocations]

\* The second GpuMemoryHeap::allocate of allocate_upload_memory and the
\* assertion on its result, on heap `index` holding heap_size bytes in
\* regions `regions`, after the calls in `made`.
UploadRetry(index, heap_size, regions, size, checks, flushed, made) ==
    LET second == GpuMemoryHeapAllocate(index, heap_size, size, checks)
        result == UploadResult(index, size, flushed, Append(made, second))
    IN  /\ gpu_upload_memory_heaps' =
               [gpu_upload_memory_heaps EXCEPT ![index] = second.size]
        /\ upload_regions' =
               [upload_regions EXCEPT ![index] =
                   IF second.outcome = "ok" THEN regions \cup {Region(second)}
                   ELSE regions]
        /\ IF second.outcome = "ok"
           THEN /\ pc' = "running"
                /\ ret' = ReturnedValue("allocate_upload_memory", result)
           ELSE /\ pc' = "panicked"
                /\ ret' = PanickedValue("allocate_upload_memory",
                                        IF second.outcome = "panic"
                                        THEN second.fault ELSE "assert",
                                        result)

\* Dx12Context::allocate_upload_memory up to the wait inside finish, or to
\* its end when the first allocation did not return the sentinel.
AllocateUploadMemory(size) ==
    /\ pc = "running"
    /\ \E checks \in BOOLEAN :
          LET index == frame_index
              first == GpuMemoryHeapAllocate(index, gpu_upload_memory_heaps[index],
                                             size, checks)
          IN  CASE first.outcome = "panic" ->
                     /\ pc' = "panicked"
                     /\ ret' = PanickedValue("allocate_upload_memory", first.fault,
                                             UploadResult(index, size, FALSE, <<first>>))
                     /\ UNCHANGED <<cmdlist, current_pipeline, sync_vars, heap_vars>>
                [] first.outcome = "ok" ->
                     /\ UploadRetry(index, first.size,
                                    upload_regions[index] \cup {Region(first)},
                                    size, checks, FALSE, <<first>>)
                     /\ UNCHANGED <<cmdlist, current_pipeline, sync_vars,
                                    cpu_heap_vars, gpu_cbv_srv_uav_heaps,
                                    descriptors_allocated>>
                [] first.outcome = "sentinel" /\ cmdlist # "recording" ->
                     /\ pc' = "panicked"
                     /\ ret' = PanickedValue("allocate_upload_memory", "close",
                                             UploadResult(index, size, FALSE, <<first>>))
                     /\ UNCHANGED <<cmdlist, current_pipeline, sync_vars, heap_vars>>
                [] first.outcome = "sentinel" /\ cmdlist = "recording" ->
                     /\ num_frames < MaxFrames
                     /\ Len(queue) + 2 <= MaxQueue
                     /\ cmdlist' = "closed"
                     /\ num_frames' = num_frames + 1
                     /\ queue' = queue \o <<ListItem(index),
                                            SignalItem(num_frames + 1)>>
                     /\ in_flight' = Signalled(Submitted(index), num_frames + 1)
                     /\ waiting' = [value |-> num_frames + 1, size |-> size,
                                    checks |-> checks]
                     /\ pc' = "allocate_upload_memory"
                     /\ ret' = Called("allocate_upload_memory")
                     /\ UNCHANGED <<current_pipeline, frame_index,
                                    back_buffer_index, fence, heap_vars>>
    /\ UNCHANGED pool_vars

\* An allocate_upload_memory whose finish does not reset the upload heap.
AllocateUploadMemoryResumeWithoutReset ==
    /\ pc = "allocate_upload_memory"
    /\ fence >= waiting.value
    /\ gpu_cbv_srv_uav_heaps' = [gpu_cbv_srv_uav_heaps EXCEPT ![frame_index] = 0]
    /\ descriptors_allocated' =
           [descriptors_allocated EXCEPT ![GpuHeapName(frame_index)] = U32Of(0)]
    /\ cmdlist' = "recording"
    /\ current_pipeline' = INVALID_PIPELINE
    /\ UploadRetry(frame_index, gpu_upload_memory_heaps[frame_index],
                   upload_regions[frame_index], waiting.size, waiting.checks, TRUE,
                   <<GpuMemoryHeapAllocate(frame_index,
                                           gpu_upload_memory_heaps[frame_index],
                                           waiting.size, waiting.checks)>>)
    /\ waiting' = NotWaiting
    /\ UNCHANGED <<pool_vars, frame_index, num_frames, back_buffer_index, queue,
                   fence, in_flight, cpu_heap_vars>>

\* The wait inside finish ends: finish resets the heaps of the current
\* frame index, new_command_list reopens the list, and the allocation is
\* made again.
AllocateUploadMemoryResume ==
    /\ pc = "allocate_upload_memory"
    /\ fence >= waiting.value
    /\ gpu_cbv_srv_uav_heaps' = [gpu_cbv_srv_uav_heaps EXCEPT ![frame_index] = 0]
    /\ descriptors_allocated' =
           [descriptors_allocated EXCEPT ![GpuHeapName(frame_index)] = U32Of(0)]
    /\ cmdlist' = "recording"
    /\ current_pipeline' = INVALID_PIPELINE
    /\ UploadRetry(frame_index, 0, {}, waiting.size, waiting.checks, TRUE,
                   <<GpuMemoryHeapAllocate(frame_index,
                                           gpu_upload_memory_heaps[frame_index],
                                           waiting.size, waiting.checks)>>)
    /\ waiting' = NotWaiting
    /\ UNCHANGED <<pool_vars, frame_index, num_frames, back_buffer_index, queue,
                   fence, in_flight, cpu_heap_vars>>

\* What allocate_upload_buffer_region reports: what its
\* allocate_upload_memory reported for the rounded size, the heap whose
\* buffer it returns and the offset it computes from the size the heap has
\* afterwards.
UploadBufferRegionResult(index, size, flushed, allocations, heap_size, offset) ==
    [index |-> index, size |-> size, flushed |-> flushed,
     cpu_addr |-> allocations[Len(allocations)].cpu_addr,
     buffer |-> index, heap_size |-> heap_size, offset |-> offset,
     allocations |-> allocations]

\* The end of allocate_upload_buffer_region from the second
\* GpuMemoryHeap::allocate of its allocate_upload_memory on: the assertion
\* on the addresses, then the buffer and the offset, size of the heap minus
\* the rounded size.
UploadBufferRegionRetry(index, heap_size, regions, size, checks, flushed, made) ==
    LET op == "allocate_upload_buffer_region"
        second == GpuMemoryHeapAllocate(index, heap_size, size, checks)
        offset == U32Sub(U32Of(second.size), size)
        result == UploadBufferRegionResult(index, size, flushed, Append(made, second),
                                           second.size, offset.value)
    IN  /\ gpu_upload_memory_heaps' =
               [gpu_upload_memory_heaps EXCEPT ![index] = second.size]
        /\ upload_regions' =
               [upload_regions EXCEPT ![index] =
                   IF second.outcome = "ok" THEN regions \cup {Region(second)}
                   ELSE regions]
        /\ IF second.outcome # "ok"
           THEN /\ pc' = "panicked"
                /\ ret' = PanickedValue(op, IF second.outcome = "panic"
                                            THEN second.fault ELSE "assert", result)
           ELSE IF checks /\ offset.overflow
           THEN /\ pc' = "panicked"
                /\ ret' = PanickedValue(op, "overflow", result)
           ELSE /\ pc' = "running"
                /\ ret' = ReturnedValue(op, result)

\* Dx12Context::allocate_upload_buffer_region up to the wait inside the
\* finish of its allocate_upload_memory, or to its end when the first
\* allocation did not return the sentinel.
AllocateUploadBufferRegion(requested) ==
    /\ pc = "running"
    /\ \E checks \in BOOLEAN :
          LET op == "allocate_upload_buffer_region"
              index == frame_index
              size == RoundedSize(requested).value
              first == GpuMemoryHeapAllocate(index, gpu_upload_memory_heaps[index],
                                             size, checks)
              unfinished == UploadBufferRegionResult(index, size, FALSE, <<first>>,
                                                     first.size, U32Of(0))
          IN  CASE checks /\ RoundedSize(requested).overflow ->
                     /\ pc' = "panicked"
                     /\ ret' = Panicked(op, "overflow")
                     /\ UNCHANGED <<cmdlist, current_pipeline, sync_vars, heap_vars>>
                [] OTHER ->
                   CASE first.outcome = "panic" ->
                          /\ pc' = "panicked"
                          /\ ret' = PanickedValue(op, first.fault, unfinished)
                          /\ UNCHANGED <<cmdlist, current_pipeline, sync_vars, heap_vars>>
                     [] first.outcome = "ok" ->
                          /\ UploadBufferRegionRetry(index, first.size,
                                 upload_regions[index] \cup {Region(first)},
                                 size, checks, FALSE, <<first>>)
                          /\ UNCHANGED <<cmdlist, current_pipeline, sync_vars,
                                         cpu_heap_vars, gpu_cbv_srv_uav_heaps,
                                         descriptors_allocated>>
                     [] first.outcome = "sentinel" /\ cmdlist # "recording" ->
                          /\ pc' = "panicked"
                          /\ ret' = PanickedValue(op, "close", unfinished)
                          /\ UNCHANGED <<cmdlist, current_pipeline, sync_vars, heap_vars>>
                     [] first.outcome = "sentinel" /\ cmdlist = "recording" ->
                          /\ num_frames < MaxFrames
                          /\ Len(queue) + 2 <= MaxQueue
                          /\ cmdlist' = "closed"
                          /\ num_frames' = num_frames + 1
                          /\ queue' = queue \o <<ListItem(index),
                                                 SignalItem(num_frames + 1)>>
                          /\ in_flight' = Signalled(Submitted(index), num_frames + 1)
                          /\ waiting' = [value |-> num_frames + 1, size |-> size,
                                         checks |-> checks]
                          /\ pc' = "allocate_upload_buffer_region"
                          /\ ret' = Called(op)
                          /\ UNCHANGED <<current_pipeline, frame_index,
                                         back_buffer_index, fence, heap_vars>>
    /\ UNCHANGED pool_vars

\* The wait inside finish ends in allocate_upload_buffer_region: the heaps
\* are reset, the list is reopened, the allocation is made again and the
\* offset computed.
AllocateUploadBufferRegionResume ==
    /\ pc = "allocate_upload_buffer_region"
    /\ fence >= waiting.value
    /\ gpu_cbv_srv_uav_heaps' = [gpu_cbv_srv_uav_heaps EXCEPT ![frame_index] = 0]
    /\ descriptors_allocated' =
           [descriptors_allocated EXCEPT ![GpuHeapName(frame_index)] = U32Of(0)]
    /\ cmdlist' = "recording"
    /\ current_pipeline' = INVALID_PIPELINE
    /\ UploadBufferRegionRetry(frame_index, 0, {}, waiting.size, waiting.checks, TRUE,
                   <<GpuMemoryHeapAllocate(frame_index,
                                           gpu_upload_memory_heaps[frame_index],
                                           waiting.size, waiting.checks)>>)
    /\ waiting' = NotWaiting
    /\ UNCHANGED <<pool_vars, frame_index, num_frames, back_buffer_index, queue,
                   fence, in_flight, cpu_heap_vars>>

\* What a descriptor allocation reports: the heap, the index of the first
\* descriptor (the heap's size before the call), the count, and the handles
\* DescriptorHeap::allocate_* computes from that size: cpu_base and gpu_base
\* plus size * descriptor_size, in usize and u64, where the product of two
\* u32 values does not wrap.  A heap that is not shader visible has no GPU
\* handle (0).
DescriptorRange(heap, first, num) ==
    [heap |-> heap, first |-> first, num |-> num,
     cpu_handle |-> DescriptorCpuBase(heap) + first * descriptor_size,
     gpu_handle |-> IF DescriptorGpuBase(heap) = 0
                    THEN 0
                    ELSE DescriptorGpuBase(heap) + first * descriptor_size]

\* The outcome of DescriptorHeap::allocate_* on the named heap.
AllocateDescriptors(op, heap, heap_size, num, checks) ==
    LET r == DescriptorHeapAllocate(heap, heap_size, num, checks)
    IN  IF r.ok
        THEN /\ ret' = ReturnedValue(op, DescriptorRange(heap, heap_size, num))
             /\ descriptors_allocated' =
                    [descriptors_allocated EXCEPT ![heap] = CountAdd(@, num)]
             /\ UNCHANGED pc
        ELSE /\ pc' = "panicked"
             /\ ret' = PanickedValue(op, r.fault, DescriptorRange(heap, heap_size, num))
             /\ UNCHANGED descriptors_allocated

\* Dx12Context::allocate_cpu_descriptors
AllocateCpuDescriptors(heap_type, num) ==
    /\ pc = "running"
    /\ \E checks \in BOOLEAN :
          LET op == "allocate_cpu_descriptors"
          IN  CASE heap_type = "RTV" ->
                     /\ AllocateDescriptors(op, "rtv", rtv_heap, num, checks)
                     /\ rtv_heap' = DescriptorHeapAllocate("rtv", rtv_heap, num, checks).size
                     /\ UNCHANGED <<dsv_heap, cpu_cbv_srv_uav_heap>>
                [] heap_type = "DSV" ->
                     /\ AllocateDescriptors(op, "dsv", dsv_heap, num, checks)
                     /\ dsv_heap' = DescriptorHeapAllocate("dsv", dsv_heap, num, checks).size
                     /\ UNCHANGED <<rtv_heap, cpu_cbv_srv_uav_heap>>
                [] heap_type = "CBV_SRV_UAV" ->
                     /\ AllocateDescriptors(op, "cpu_cbv_srv_uav",
                                            cpu_cbv_srv_uav_heap, num, checks)
                     /\ cpu_cbv_srv_uav_heap' =
                            DescriptorHeapAllocate("cpu_cbv_srv_uav",
                                                   cpu_cbv_srv_uav_heap, num, checks).size
                     /\ UNCHANGED <<rtv_heap, dsv_heap>>
                [] OTHER ->
                     /\ pc' = "panicked"
                     /\ ret' = Panicked(op, "assert")
                     /\ UNCHANGED <<cpu_heap_vars, descriptors_allocated>>
    /\ UNCHANGED <<pool_vars, pipeline_vars, frame_vars, gpu_cbv_srv_uav_heaps,
                   gpu_upload_memory_heaps, upload_regions>>

\* allocate_gpu_descriptors as it would be if it took the heap of the
\* frame index that is not the current one.
AllocateGpuDescriptorsOtherFrame(num) ==
    /\ pc = "running"
    /\ \E checks \in BOOLEAN :
          LET other == 1 - frame_index
              heap == GpuHeapName(other)
              size == gpu_cbv_srv_uav_heaps[other]
          IN  /\ AllocateDescriptors("allocate_gpu_descriptors", heap, size, num, checks)
              /\ gpu_cbv_srv_uav_heaps' =
                     [gpu_cbv_srv_uav_heaps EXCEPT ![other] =
                         DescriptorHeapAllocate(heap, size, num, checks).size]
    /\ UNCHANGED <<pool_vars, pipeline_vars, frame_vars, cpu_heap_vars,
                   gpu_upload_memory_heaps, upload_regions>>

\* Dx12Context::allocate_gpu_descriptors
AllocateGpuDescriptors(num) ==
    /\ pc = "running"
    /\ \E checks \in BOOLEAN :
          LET heap == GpuHeapName(frame_index)
              size == gpu_cbv_srv_uav_heaps[frame_index]
          IN  /\ AllocateDescriptors("allocate_gpu_descriptors", heap, size, num, checks)
              /\ gpu_cbv_srv_uav_heaps' =
                     [gpu_cbv_srv_uav_heaps EXCEPT ![frame_index] =
                         DescriptorHeapAllocate(heap, size, num, checks).size]
    /\ UNCHANGED <<pool_vars, pipeline_vars, frame_vars, cpu_heap_vars,
                   gpu_upload_memory_heaps, upload_regions>>

\* Dx12Context::copy_descriptors_to_gpu_heap: allocate_gpu_descriptors on
\* the current frame's heap, then CopyDescriptorsSimple to the CPU handle of
\* the range; the GPU handle of the range is returned.  The descriptors
\* written are the device's memory at the destination the range names.
CopyDescriptorsToGpuHeap(num_descriptors) ==
    /\ pc = "running"
    /\ \E checks \in BOOLEAN :
          LET heap == GpuHeapName(frame_index)
              size == gpu_cbv_srv_uav_heaps[frame_index]
          IN  /\ AllocateDescriptors("copy_descriptors_to_gpu_heap", heap, size,
                                     num_descriptors, checks)
              /\ gpu_cbv_srv_uav_heaps' =
                     [gpu_cbv_srv_uav_heaps EXCEPT ![frame_index] =
                         DescriptorHeapAllocate(heap, size, num_descriptors, checks).size]
    /\ UNCHANGED <<pool_vars, pipeline_vars, frame_vars, cpu_heap_vars,
                   gpu_upload_memory_heaps, upload_regions>>

----------------------------------------------------------------------------
(* Specifications *)

\* stale_resource and stale_pipeline record history and are read by no
\* operation; keep is FALSE in the specifications that do not ask about
\* stale handles.
ResourcePoolOps(keeps) ==
    \/ CreateCommittedResource
    \/ \E h \in ResourceHandles : Resource(h)
    \/ \E h \in ResourceHandles, keep \in keeps : DestroyResource(h, keep)

ResourceOps(keeps) ==
    \/ ResourcePoolOps(keeps)
    \/ \E h \in ResourceHandles, s \in TargetStates : TransitionBarrier(h, s)

PipelinePoolOps(keeps) ==
    \/ \E desc \in GraphicsDescs : CreateGraphicsPipeline(desc)
    \/ \E desc \in ComputeDescs : CreateComputePipeline(desc)
    \/ \E h \in PipelineHandles, keep \in keeps : DestroyPipeline(h, keep)

PipelineOps(keeps) ==
    \/ PipelinePoolOps(keeps)
    \/ \E h \in PipelineHandles : SetGraphicsPipeline(h)

CommandListOps == NewCommandList \/ Close \/ ExecuteCommandLists

FrameOps ==
    \/ PresentFrame \/ PresentFrameObserve \/ PresentFrameResume
    \/ Finish \/ FinishResume
    \/ GpuExecute

UploadOps(sizes) ==
    \/ \E size \in sizes : AllocateUploadMemory(size)
    \/ AllocateUploadMemoryResume

DescriptorOps ==
    \/ \E heap_type \in DescriptorHeapTypes, num \in DescriptorCounts :
          AllocateCpuDescriptors(heap_type, num)
    \/ \E num \in DescriptorCounts : AllocateGpuDescriptors(num)

\* Every operation of the context, and the GPU.
Next ==
    \/ ResourceOps(BOOLEAN) \/ PipelineOps(BOOLEAN)
    \/ CommandListOps \/ FrameOps
    \/ UploadOps(UploadSizes) \/ DescriptorOps

Spec == Init /\ [][Next]_vars

\* The frame protocol: recording, submission, presentation, finish, the GPU
\* and the upload allocator, whose flush runs finish.
NextFrames == CommandListOps \/ FrameOps \/ UploadOps(FrameUploadSizes)

SpecFrames == Init /\ [][NextFrames]_vars

\* The frame protocol with a GPU that executes what is in its queue, and a
\* CPU that goes on inside a call once nothing holds it: the completed
\* value is read, and a wait ends when its fence value has been reached.
FairFrames ==
    /\ WF_vars(GpuExecute)
    /\ WF_vars(PresentFrameObserve)
    /\ WF_vars(PresentFrameResume)
    /\ WF_vars(FinishResume)
    /\ WF_vars(AllocateUploadMemoryResume)

\* The calls in which the CPU waits, the recording and the upload requests
\* that lead to the flush, and the GPU.
NextFramesFair == NewCommandList \/ FrameOps \/ UploadOps(FrameUploadSizes)

SpecFramesFair == Init /\ [][NextFramesFair]_vars /\ FairFrames

\* The upload heap of one frame index: every request size, the recording
\* that the flush needs, finish as the other operation that resets the
\* heap, and the GPU.
NextUpload ==
    \/ UploadOps(UploadSizes)
    \/ NewCommandList
    \/ Finish \/ FinishResume
    \/ GpuExecute

SpecUpload == Init /\ [][NextUpload]_vars

\* The descriptor heaps: the three CPU heaps on their own, and the two
\* shader-visible heaps with the operations that reset them.
CpuHeapsAsConstructed ==
    /\ rtv_heap = NUM_SWAP_BUFFERS
    /\ dsv_heap = 0
    /\ cpu_cbv_srv_uav_heap = 0
    /\ ret.op # "allocate_cpu_descriptors"

FramesAsConstructed ==
    /\ num_frames = 0
    /\ gpu_cbv_srv_uav_heaps = [i \in 0 .. 1 |-> 0]
    /\ ret.op # "allocate_gpu_descriptors"

NextDescriptors ==
    \/ /\ FramesAsConstructed
       /\ \E heap_type \in DescriptorHeapTypes, num \in DescriptorCounts :
             AllocateCpuDescriptors(heap_type, num)
    \/ /\ CpuHeapsAsConstructed
       /\ \/ \E num \in DescriptorCounts : AllocateGpuDescriptors(num)
          \/ PresentFrame \/ PresentFrameObserve \/ PresentFrameResume
          \/ Finish \/ FinishResume
          \/ GpuExecute

SpecDescriptors == Init /\ [][NextDescriptors]_vars

\* Descriptor tables: the descriptor allocations together with the copies
\* into the current frame's shader-visible heap, between frame boundaries.
NextTables ==
    \/ NextDescriptors
    \/ /\ CpuHeapsAsConstructed
       /\ \E num \in DescriptorCounts : CopyDescriptorsToGpuHeap(num)

SpecTables == Init /\ [][NextTables]_vars

\* The two pools share no state: no operation on one reads or writes the
\* other.  SpecPools follows the runs that work on one pool while the other
\* is as constructed, which reach every state of either pool.
ResourcePoolAsConstructed ==
    /\ resources = InitialResourcePool.resources
    /\ resource_generations = InitialResourcePool.generations

PipelinePoolAsConstructed ==
    /\ pipelines = [i \in 0 .. MAX_NUM_PIPELINES |-> NullPipeline]
    /\ pipeline_generations = [i \in 0 .. MAX_NUM_PIPELINES |-> 0]
    /\ pipeline_map = << >>

NextPools ==
    \/ PipelinePoolAsConstructed /\ ResourcePoolOps({FALSE})
    \/ ResourcePoolAsConstructed /\ PipelinePoolOps({FALSE})

SpecPools == Init /\ [][NextPools]_vars

\* The barriers recorded against the swap buffers and the resources
\* created after them.
NextBarriers ==
    \/ CreateCommittedResource
    \/ \E h \in ResourceHandles, s \in TargetStates : TransitionBarrier(h, s)

SpecBarriers == Init /\ [][NextBarriers]_vars

\* Binding: the graphics pipelines, the command list that new_command_list
\* opens, and the upload allocator, whose flush opens it again.
NextBinding ==
    \/ \E desc \in GraphicsDescs : CreateGraphicsPipeline(desc)
    \/ \E h \in PipelineHandles : SetGraphicsPipeline(h)
    \/ NewCommandList
    \/ UploadOps(FrameUploadSizes)
    \/ GpuExecute

SpecBinding == Init /\ [][NextBinding]_vars

\* The per-frame heaps and the two calls that reset them: allocations from
\* the heaps of the current frame index, present_frame, finish and the GPU.
ResetDescriptorCounts == {U32Of(1)}

ResetUploadSizes == {U32Of(256)}

NextResets ==
    \/ FrameOps
    \/ \E num \in ResetDescriptorCounts : AllocateGpuDescriptors(num)
    \/ \E size \in ResetUploadSizes : AllocateUploadMemory(size)

SpecResets == Init /\ [][NextResets]_vars

\* The per-frame heaps under every call that allocates from them, with the
\* frames going by: descriptors and descriptor copies, upload memory and
\* upload buffer regions, each with its flush, while the CPU heaps are as
\* constructed.  The list is opened where the sample opens it, after
\* construction and after a frame boundary, and the frames end in
\* present_frame.
NextFrameHeaps ==
    /\ CpuHeapsAsConstructed
    /\ \/ /\ ret.op \in {"new", "present_frame", "finish"}
          /\ NewCommandList
       \/ PresentFrame \/ PresentFrameObserve \/ PresentFrameResume
       \/ GpuExecute
       \/ \E num \in ResetDescriptorCounts :
             AllocateGpuDescriptors(num) \/ CopyDescriptorsToGpuHeap(num)
       \/ UploadOps(FrameUploadSizes)
       \/ \E size \in FrameUploadSizes : AllocateUploadBufferRegion(size)
       \/ AllocateUploadBufferRegionResume

SpecFrameHeaps == Init /\ [][NextFrameHeaps]_vars

\* The tracked states of the swap buffers and of the resources the
\* application creates and destroys next to them, under every kind of
\* operation: the resources are worked on before the first frame, the
\* frames go by with barriers on the swap buffers alone, and the command
\* list, the allocators and the pipelines are worked on while the resource
\* pool is as constructed.
FramesNotStarted ==
    /\ num_frames = 0
    /\ cmdlist = "closed"
    /\ gpu_cbv_srv_uav_heaps = [i \in 0 .. 1 |-> 0]
    /\ gpu_upload_memory_heaps = [i \in 0 .. 1 |-> 0]

SwapBuffersOnly ==
    \A i \in NUM_SWAP_BUFFERS + 1 .. MAX_NUM_RESOURCES : resource_generations[i] = 0

NextTracked ==
    \/ /\ FramesNotStarted /\ PipelinePoolAsConstructed
       /\ \/ CreateCommittedResource
          \/ \E h \in ResourceHandles :
                h.index > NUM_SWAP_BUFFERS /\ DestroyResource(h, FALSE)
          \/ \E h \in ResourceHandles, s \in TargetStates : TransitionBarrier(h, s)
          \/ \E h \in ResourceHandles : Resource(h)
    \/ /\ SwapBuffersOnly /\ PipelinePoolAsConstructed /\ cmdlist = "closed"
       /\ gpu_cbv_srv_uav_heaps = [i \in 0 .. 1 |-> 0]
       /\ gpu_upload_memory_heaps = [i \in 0 .. 1 |-> 0]
       /\ \/ \E h \in ResourceHandles, s \in TargetStates :
                num_frames > 0 /\ TransitionBarrier(h, s)
          \/ FrameOps
    \/ /\ ResourcePoolAsConstructed /\ PipelinePoolAsConstructed /\ num_frames = 0
       /\ \/ NewCommandList
          \/ \E num \in ResetDescriptorCounts : AllocateGpuDescriptors(num)
          \/ \E size \in ResetUploadSizes : AllocateUploadMemory(size)
    \/ /\ FramesNotStarted /\ ResourcePoolAsConstructed
       /\ PipelinePoolOps({FALSE})

SpecTracked == Init /\ [][NextTracked]_vars

\* The frame protocol of the sample (new, draw and destroy in main.rs):
\* new_command_list, recording with upload requests, close,
\* execute_command_lists, then present_frame or finish, and the finish of
\* destroy after the last frame; ret tells how far the application has
\* come.
NextProtocol ==
    \/ /\ cmdlist = "closed"
       /\ ret.op \in {"new", "present_frame", "finish"}
       /\ NewCommandList
    \/ /\ cmdlist = "recording"
       /\ \/ \E size \in FrameUploadSizes : AllocateUploadMemory(size)
          \/ Close
    \/ ret.op = "close" /\ ExecuteCommandLists
    \/ ret.op = "execute_command_lists" /\ (PresentFrame \/ Finish)
    \/ ret.op \in {"present_frame", "finish"} /\ cmdlist = "closed" /\ Finish
    \/ PresentFrameObserve \/ PresentFrameResume
    \/ FinishResume
    \/ AllocateUploadMemoryResume
    \/ GpuExecute

SpecProtocol == Init /\ [][NextProtocol]_vars

\* The swap chain: back_buffer between the frames, and the resource pool,
\* the swap buffers included, worked on before the first frame.
NextSwapChain ==
    \/ BackBuffer
    \/ FrameOps
    \/ /\ FramesNotStarted
       /\ \/ CreateCommittedResource
          \/ \E h \in ResourceHandles : DestroyResource(h, FALSE)

SpecSwapChain == Init /\ [][NextSwapChain]_vars

\* The upload buffer regions of one frame index: every request size, the
\* recording that the flush needs, finish, and the GPU.
NextRegions ==
    \/ \E size \in UploadSizes : AllocateUploadBufferRegion(size)
    \/ AllocateUploadBufferRegionResume
    \/ NewCommandList
    \/ Finish \/ FinishResume
    \/ GpuExecute

SpecRegions == Init /\ [][NextRegions]_vars

\* The sample application (main.rs).  App::new records one list:
\* new_command_list, the pipeline, a buffer created in COPY_DEST, filled
\* through an upload buffer region and moved to
\* NON_PIXEL_SHADER_RESOURCE by create_buffer, close, execute_command_lists,
\* finish.  App::draw then runs once per frame: back_buffer,
\* new_command_list, the barrier to DrawRenderState, the pipeline, a
\* descriptor table, the barrier to DrawFinalState, close,
\* execute_command_lists, present_frame.  App::destroy calls finish.  ret
\* tells how far the application has come, and the handles it holds are
\* those the calls returned: the back buffer of a frame is
\* swap_buffers[back_buffer_index].
D3D12_RESOURCE_STATE_NON_PIXEL_SHADER_RESOURCE == 64

DrawRenderState == D3D12_RESOURCE_STATE_RENDER_TARGET

\* A draw that leaves its back buffer in RENDER_TARGET.
DrawFinalStateRenderTarget == D3D12_RESOURCE_STATE_RENDER_TARGET

DrawFinalState == D3D12_RESOURCE_STATE_PRESENT

InAppNew == num_frames = 0

\* App.pso and the buffer of create_buffer.
AppPipeline == pipeline_map[calc_graphics_pipeline_hash(BaseGraphicsDesc)]

AppBuffer ==
    CHOOSE h \in ResourceHandles :
        /\ h.index > NUM_SWAP_BUFFERS
        /\ ValidResource(h, resources, resource_generations)

AppNew ==
    /\ InAppNew
    /\ \/ ret.op = "new" /\ NewCommandList
       \/ ret.op = "new_command_list" /\ CreateGraphicsPipeline(BaseGraphicsDesc)
       \/ ret.op = "create_graphics_pipeline" /\ CreateCommittedResource
       \/ ret.op = "create_committed_resource" /\ Resource(ret.handle)
       \/ /\ ret.op = "resource"
          /\ \E size \in FrameUploadSizes : AllocateUploadBufferRegion(size)
       \/ /\ ret.op = "allocate_upload_buffer_region"
          /\ TransitionBarrier(AppBuffer, D3D12_RESOURCE_STATE_NON_PIXEL_SHADER_RESOURCE)
       \/ ret.op = "transition_barrier" /\ Close
       \/ ret.op = "close" /\ ExecuteCommandLists
       \/ ret.op = "execute_command_lists" /\ Finish

AppDraw ==
    /\ ~InAppNew
    /\ \/ /\ ret.op = "present_frame" \/ (ret.op = "finish" /\ num_frames = 1)
          /\ BackBuffer
       \/ ret.op = "back_buffer" /\ NewCommandList
       \/ /\ ret.op = "new_command_list"
          /\ TransitionBarrier(swap_buffers[back_buffer_index], DrawRenderState)
       \/ ret.op = "transition_barrier" /\ cmdlist = "recording"
             /\ current_pipeline = INVALID_PIPELINE /\ SetGraphicsPipeline(AppPipeline)
       \/ ret.op = "set_graphics_pipeline" /\ AllocateGpuDescriptors(U32Of(1))
       \/ /\ ret.op = "allocate_gpu_descriptors"
          /\ TransitionBarrier(swap_buffers[back_buffer_index], DrawFinalState)
       \/ /\ ret.op = "transition_barrier" /\ current_pipeline # INVALID_PIPELINE
          /\ Close
       \/ ret.op = "close" /\ ExecuteCommandLists
       \/ ret.op = "execute_command_lists" /\ PresentFrame

AppDestroy ==
    /\ ret.op \in {"finish", "present_frame"}
    /\ ~InAppNew
    /\ Finish

NextApp ==
    \/ AppNew \/ AppDraw \/ AppDestroy
    \/ PresentFrameObserve \/ PresentFrameResume
    \/ FinishResume
    \/ GpuExecute

SpecApp == Init /\ [][NextApp]_vars

\* The pipeline pool with a destroyed handle and its key kept.
NextStalePipelines == PipelinePoolOps(BOOLEAN)

SpecStalePipelines == Init /\ [][NextStalePipelines]_vars

\* The pipeline cache on its own: creations from the descriptions that
\* differ from one another in a field or two, and from the compute
\* description, which shares the map.
NextCache ==
    \/ \E desc \in GraphicsDescVariants : CreateGraphicsPipeline(desc)
    \/ \E desc \in ComputeDescs : CreateComputePipeline(desc)

SpecCache == Init /\ [][NextCache]_vars

\* The runs on the resource pool in which the application may keep a handle
\* it has destroyed.
NextStaleHandles == ResourcePoolOps(BOOLEAN)

SpecStaleHandles == Init /\ [][NextStaleHandles]_vars

----------------------------------------------------------------------------
(* Claims *)

\* C1: a handle that was returned for a slot and then destroyed fails
\* validation in every later state, also after later adds have reused its
\* slot, in the resource pool and in the pipeline pool.
C1_DestroyedHandleNeverValidates ==
    /\ stale_resource # NoHandle =>
          ~ValidResource(stale_resource, resources, resource_generations)
    /\ stale_pipeline # NoHandle =>
          ~ValidPipeline(stale_pipeline, pipelines, pipeline_generations)

\* The calls during which the heaps of a frame index are reset, and the
\* fence value the call has seen completed when it resets them.
ResettingCalls ==
    {"present_frame", "present_frame_wait", "finish", "allocate_upload_memory"}

SeenCompleted == IF pc = "present_frame" THEN fence ELSE waiting.value

\* C2: whenever present_frame or finish (also the finish inside the upload
\* flush) resets the heaps of frame index f, no command list submitted
\* under f is without a fence value, and the fence value of the last one
\* is at most the completed value the call has seen, which the fence has
\* reached.
C2_ResetOnlyAfterCompletion ==
    [][(pc \in ResettingCalls /\ pc' \in {"running", "panicked"}) =>
          /\ ~in_flight[frame_index'].pending
          /\ in_flight[frame_index'].value <= SeenCompleted
          /\ SeenCompleted <= fence]_vars

\* A present_frame has returned to a frame index under which command lists
\* had been submitted, and has reset its heaps.
C2_Witness ==
    /\ pc = "running"
    /\ ret = Returned("present_frame", NoHandle)
    /\ in_flight[frame_index].value > 0
    /\ gpu_upload_memory_heaps[frame_index] = 0
    /\ gpu_cbv_srv_uav_heaps[frame_index] = 0

\* C3: present_frame waits exactly when num_frames, after its increment,
\* is 2 or more ahead of the completed fence value it reads, and then for
\* that value plus 1; whenever the recording thread is between calls,
\* num_frames is at most 1 ahead of the completed value.
C3_FramePacing ==
    /\ [](pc = "running" => num_frames - fence <= 1)
    /\ [][(pc = "present_frame" /\ pc' # pc) =>
             /\ (pc' = "present_frame_wait") <=> (num_frames - fence >= 2)
             /\ pc' = "present_frame_wait" => waiting'.value = fence + 1]_vars

\* present_frame is blocked, two frames ahead of the GPU.
C3_Witness ==
    /\ pc = "present_frame_wait"
    /\ num_frames - fence >= 2
    /\ waiting.value = fence + 1

\* 256 * ceil(s / 256) as a number, not reduced modulo 2^32.
ExactRounded(s) ==
    IF s.lo % 256 = 0 THEN s
    ELSE LET lo == s.lo - (s.lo % 256) + 256
         IN  U32(s.hi + (lo \div HALF), lo % HALF)

NumberLessEq(x, y) == x.hi < y.hi \/ (x.hi = y.hi /\ x.lo <= y.lo)

\* x + y as a number, for x below 2^31.
NumberAdd(n, y) ==
    LET lo == (n % HALF) + y.lo
    IN  U32((n \div HALF) + y.hi + (lo \div HALF), lo % HALF)

\* C4: allocate_upload_memory does not stop at its final assertion on a
\* request of 1 byte or more whose rounded size is at most the capacity of
\* one heap.
C4_SoundRequestsNeverAssert ==
    ~(/\ ret.op = "allocate_upload_memory"
      /\ ~ret.ok
      /\ ret.fault = "assert"
      /\ NumberLessEq(U32Of(1), ret.value.size)
      /\ NumberLessEq(ExactRounded(ret.value.size), U32Of(UPLOAD_HEAP_CAPACITY)))

\* The three conditions of validation, for a resource and for a pipeline
\* handle.
ResourceHandleIsValid(h) ==
    /\ 1 <= h.index /\ h.index <= MAX_NUM_RESOURCES
    /\ h.generation = resource_generations[h.index]
    /\ resources[h.index].ptr

PipelineHandleIsValid(h) ==
    /\ 1 <= h.index /\ h.index <= MAX_NUM_PIPELINES
    /\ h.generation = pipeline_generations[h.index]
    /\ pipelines[h.index].pso /\ pipelines[h.index].rsignature

ResourcePoolKept == UNCHANGED <<resources, resource_generations>>

PipelinePoolKept ==
    UNCHANGED <<pipelines, pipeline_generations, pipeline_map, current_pipeline>>

\* C5: between calls, resource(h) returns exactly for the handles that are
\* in range, carry the stored generation and name a live slot, and with any
\* other handle resource, transition_barrier and destroy_resource can only
\* stop the process with the pool as it was; the same for pipeline handles
\* with set_graphics_pipeline and destroy_pipeline.
C5_ValidationGuardsEveryOperation ==
    pc = "running" =>
       /\ \A h \in ResourceHandles :
             /\ ResourceHandleIsValid(h) <=> ENABLED (Resource(h) /\ pc' = "running")
             /\ ~ResourceHandleIsValid(h) =>
                   /\ ~ENABLED (Resource(h) /\ ~(pc' = "panicked" /\ ResourcePoolKept))
                   /\ ~ENABLED (DestroyResource(h, FALSE)
                                /\ ~(pc' = "panicked" /\ ResourcePoolKept))
                   /\ \A state_after \in TargetStates :
                         ~ENABLED (TransitionBarrier(h, state_after)
                                   /\ ~(pc' = "panicked" /\ ResourcePoolKept))
       /\ \A h \in PipelineHandles :
             /\ PipelineHandleIsValid(h) <=>
                   ENABLED (SetGraphicsPipeline(h) /\ pc' = "running")
             /\ ~PipelineHandleIsValid(h) =>
                   /\ ~ENABLED (SetGraphicsPipeline(h)
                                /\ ~(pc' = "panicked" /\ PipelinePoolKept))
                   /\ ~ENABLED (DestroyPipeline(h, FALSE)
                                /\ ~(pc' = "panicked" /\ PipelinePoolKept))

\* A destroy_resource has stopped the process on a handle whose slot holds
\* a later generation.
C5_Witness ==
    /\ pc = "panicked"
    /\ ret = Panicked("destroy_resource", "validate")
    /\ \E i \in 1 .. MAX_NUM_RESOURCES :
          resources[i].ptr /\ resource_generations[i] > 1

LiveResources == {i \in 1 .. MAX_NUM_RESOURCES : resources[i].ptr}

LivePipelines == {i \in 1 .. MAX_NUM_PIPELINES : pipelines[i].pso}

\* C6: between calls, an add to a pool with fewer live slots than the pool
\* has can only return, and then with the lowest free index, never 0; an
\* add to a full pool can only stop the process.
C6_AddSucceedsIffRoom ==
    pc = "running" =>
       /\ IF Cardinality(LiveResources) < MAX_NUM_RESOURCES
          THEN ~ENABLED (CreateCommittedResource
                         /\ ~(/\ pc' = "running"
                              /\ ret'.handle.index # 0
                              /\ ret'.handle.index \notin LiveResources
                              /\ \A j \in 1 .. ret'.handle.index - 1 :
                                    j \in LiveResources))
          ELSE ~ENABLED (CreateCommittedResource /\ pc' # "panicked")
       /\ \A desc \in GraphicsDescs :
             calc_graphics_pipeline_hash(desc) \notin DOMAIN pipeline_map =>
                IF Cardinality(LivePipelines) < MAX_NUM_PIPELINES
                THEN ~ENABLED (CreateGraphicsPipeline(desc)
                               /\ ~(/\ pc' = "running"
                                    /\ ret'.handle.index # 0
                                    /\ ret'.handle.index \notin LivePipelines
                                    /\ \A j \in 1 .. ret'.handle.index - 1 :
                                          j \in LivePipelines))
                ELSE ~ENABLED (CreateGraphicsPipeline(desc) /\ pc' # "panicked")

\* The regions handed out by one upload heap since its reset.
RegionEnd(r) == NumberAdd(r.offset, r.size)

Disjoint(r1, r2) ==
    \/ NumberLessEq(RegionEnd(r1), U32Of(r2.offset))
    \/ NumberLessEq(RegionEnd(r2), U32Of(r1.offset))

\* C7: the size of each upload heap is a multiple of 256, so is the offset
\* of every region handed out, and any two regions handed out by a heap
\* since its last reset are disjoint.
C7_AlignedAndDisjoint ==
    \A i \in 0 .. 1 :
       /\ gpu_upload_memory_heaps[i] % 256 = 0
       /\ \A r \in upload_regions[i] : r.offset % 256 = 0
       /\ \A r1, r2 \in upload_regions[i] : r1 # r2 => Disjoint(r1, r2)

\* The calls of GpuMemoryHeap::allocate made by the last
\* allocate_upload_memory.
LastAllocations ==
    IF ret.op = "allocate_upload_memory" /\ ret.value # << >>
    THEN {ret.value.allocations[k] : k \in 1 .. Len(ret.value.allocations)}
    ELSE {}

\* C8: an allocation of s bytes that succeeded advanced the size of its
\* heap by 256 * ceil(s / 256).
C8_AdvanceIsRoundedSize ==
    \A a \in LastAllocations :
       a.outcome = "ok" =>
          /\ a.size >= a.before
          /\ U32Of(a.size - a.before) = ExactRounded(a.request)

\* C9: GpuMemoryHeap::allocate returned the sentinel exactly when the size
\* of the heap plus the rounded request was above the capacity, and then
\* left the size as it was.
C9_SentinelIffOverCapacity ==
    \A a \in LastAllocations :
       a.outcome \in {"ok", "sentinel"} =>
          /\ a.outcome = "sentinel" <=>
                ~NumberLessEq(NumberAdd(a.before, ExactRounded(a.request)),
                              U32Of(UPLOAD_HEAP_CAPACITY))
          /\ a.outcome = "sentinel" => a.size = a.before

DescriptorHeapSize(heap) ==
    CASE heap = "rtv" -> rtv_heap
      [] heap = "dsv" -> dsv_heap
      [] heap = "cpu_cbv_srv_uav" -> cpu_cbv_srv_uav_heap
      [] heap = "gpu0" -> gpu_cbv_srv_uav_heaps[0]
      [] heap = "gpu1" -> gpu_cbv_srv_uav_heaps[1]

\* C10: for every descriptor heap the counts allocated since its last
\* reset add up to its size, which is at most its capacity, and an
\* allocation that returned did not ask for more descriptors than the
\* heap had left.
C10_DescriptorCountsWithinCapacity ==
    /\ \A heap \in DescriptorHeapNames :
          /\ descriptors_allocated[heap] = U32Of(DescriptorHeapSize(heap))
          /\ DescriptorHeapSize(heap) <= Capacity(heap)
    /\ (/\ ret.op \in {"allocate_cpu_descriptors", "allocate_gpu_descriptors"}
        /\ ret.ok) =>
          NumberLessEq(NumberAdd(ret.value.first, ret.value.num),
                       U32Of(Capacity(ret.value.heap)))

\* The heap that allocate_cpu_descriptors routes a heap type to.
HeapOfType(heap_type) ==
    CASE heap_type = "RTV" -> "rtv"
      [] heap_type = "DSV" -> "dsv"
      [] heap_type = "CBV_SRV_UAV" -> "cpu_cbv_srv_uav"

NumberLess(x, y) == ~NumberLessEq(y, x)

\* C11: between calls, an allocation of num descriptors from a heap can
\* return exactly when the heap's size plus num is below its capacity, so a
\* request for all that remains stops the process, and the size of a heap
\* is always below its capacity.
C11_DescriptorAllocationIsStrict ==
    /\ \A heap \in DescriptorHeapNames : DescriptorHeapSize(heap) < Capacity(heap)
    /\ pc = "running" =>
          \A num \in DescriptorCounts :
             /\ \A heap_type \in {"RTV", "DSV", "CBV_SRV_UAV"} :
                   ENABLED (AllocateCpuDescriptors(heap_type, num) /\ pc' = "running")
                   <=> NumberLess(NumberAdd(DescriptorHeapSize(HeapOfType(heap_type)), num),
                                  U32Of(Capacity(HeapOfType(heap_type))))
             /\ ENABLED (AllocateGpuDescriptors(num) /\ pc' = "running")
                <=> NumberLess(NumberAdd(gpu_cbv_srv_uav_heaps[frame_index], num),
                               U32Of(Capacity(GpuHeapName(frame_index))))

\* What a create_*_pipeline call with key `hash` must have done: on a hit,
\* returned the handle stored under the key and left pool and map as they
\* were; on a miss, if it returned, filled one free slot with a pipeline
\* state and a root signature and stored the handle returned under the key,
\* leaving every other slot and entry as it was.
CachedCreate(hash) ==
    IF hash \in DOMAIN pipeline_map
    THEN /\ pc' = "running"
         /\ ret'.handle = pipeline_map[hash]
         /\ UNCHANGED <<pipelines, pipeline_generations, pipeline_map>>
    ELSE pc' = "running" =>
            /\ ~pipelines[ret'.handle.index].pso
            /\ pipelines'[ret'.handle.index] = [pso |-> TRUE, rsignature |-> TRUE]
            /\ \A i \in 0 .. MAX_NUM_PIPELINES :
                  i # ret'.handle.index => pipelines'[i] = pipelines[i]
            /\ DOMAIN pipeline_map' = DOMAIN pipeline_map \cup {hash}
            /\ pipeline_map'[hash] = ret'.handle
            /\ \A k \in DOMAIN pipeline_map : pipeline_map'[k] = pipeline_map[k]

\* C12: a create_graphics_pipeline or create_compute_pipeline whose key is
\* in the map returns the handle stored there and changes neither pool nor
\* map; one whose key is not creates one pipeline in one slot and stores
\* it under the key; and an entry stays in the map, with its handle, until
\* a destroy_pipeline.  So two calls with the same description and no
\* destroy_pipeline between them return the same handle and create once.
C12_PipelineCacheIdempotent ==
    [][/\ \A desc \in GraphicsDescs :
             ret'.op = "create_graphics_pipeline" /\ CreateGraphicsPipeline(desc) =>
                CachedCreate(calc_graphics_pipeline_hash(desc))
       /\ \A desc \in ComputeDescs :
             ret'.op = "create_compute_pipeline" /\ CreateComputePipeline(desc) =>
                CachedCreate(calc_compute_pipeline_hash(desc))
       /\ ret'.op # "destroy_pipeline" =>
             \A k \in DOMAIN pipeline_map :
                k \in DOMAIN pipeline_map' /\ pipeline_map'[k] = pipeline_map[k]]_vars

\* The last call was a create_graphics_pipeline that returned the handle
\* of the first pipeline created while a pipeline created after it is live.
C12_Witness ==
    /\ pc = "running"
    /\ ret = Returned("create_graphics_pipeline", Handle(1, 1))
    /\ pipelines[2].pso
    /\ pipeline_generations[2] = 1
    /\ Cardinality(DOMAIN pipeline_map) = 2

DifferInOneField(a, b) == Cardinality({f \in DOMAIN a : a[f] # b[f]}) = 1

\* C13: when create_graphics_pipeline returns for a description, every
\* description that differs from it in one field (a shader binary, the
\* blend, rasterizer or depth/stencil state, the input layout, a render
\* target format, the sample description) has a different key, and if that
\* one is cached its handle is not the handle returned.
C13_PipelineCacheSensitive ==
    [][\A desc \in GraphicsDescVariants :
          /\ pc' = "running"
          /\ ret'.op = "create_graphics_pipeline"
          /\ CreateGraphicsPipeline(desc)
          => \A other \in GraphicsDescVariants :
                DifferInOneField(desc, other) =>
                   /\ calc_graphics_pipeline_hash(other) # calc_graphics_pipeline_hash(desc)
                   /\ calc_graphics_pipeline_hash(other) \in DOMAIN pipeline_map' =>
                         pipeline_map'[calc_graphics_pipeline_hash(other)] # ret'.handle]_vars

\* Two descriptions that differ in one byte of the vertex shader are both
\* cached, and the last call returned the handle of the second.
C13_Witness ==
    LET other == [BaseGraphicsDesc EXCEPT !.vs = <<1>>]
    IN  /\ pc = "running"
        /\ ret.op = "create_graphics_pipeline"
        /\ calc_graphics_pipeline_hash(BaseGraphicsDesc) \in DOMAIN pipeline_map
        /\ calc_graphics_pipeline_hash(other) \in DOMAIN pipeline_map
        /\ ret.handle = pipeline_map[calc_graphics_pipeline_hash(other)]
        /\ ret.handle # pipeline_map[calc_graphics_pipeline_hash(BaseGraphicsDesc)]

\* destroy_pipeline(h) removed the entry whose value is h and no other,
\* and freed the slot of h, so that h no longer validates.
DestroyedPipeline(h) ==
    /\ Cardinality(DOMAIN pipeline_map \ DOMAIN pipeline_map') = 1
    /\ \A k \in DOMAIN pipeline_map :
          IF pipeline_map[k] = h
          THEN k \notin DOMAIN pipeline_map'
          ELSE k \in DOMAIN pipeline_map' /\ pipeline_map'[k] = pipeline_map[k]
    /\ pipelines'[h.index] = NullPipeline
    /\ ~ValidPipeline(h, pipelines', pipeline_generations')

\* A create_graphics_pipeline for the description that the destroyed handle
\* kept was created from returns another handle.
RecreatedPipeline(desc) ==
    pc' = "running" =>
       /\ ret'.handle # stale_pipeline
       /\ ValidPipeline(ret'.handle, pipelines', pipeline_generations')

\* C14: destroy_pipeline(h) on a valid handle removes the one map entry
\* whose value is h and no other and frees the slot, so that h fails
\* validation; and a later create_graphics_pipeline with the description
\* of h returns a handle different from h.
C14_DestroyPipelineEvicts ==
    [][/\ \A h \in PipelineHandles, keep \in BOOLEAN :
             ValidPipeline(h, pipelines, pipeline_generations)
                /\ DestroyPipeline(h, keep) => DestroyedPipeline(h)
       /\ \A desc \in GraphicsDescs :
             /\ stale_pipeline # NoHandle
             /\ stale_key = calc_graphics_pipeline_hash(desc)
             /\ CreateGraphicsPipeline(desc)
             => RecreatedPipeline(desc)]_vars

\* C15: a transition_barrier that returns records one barrier, from the
\* tracked state of the resource to the target, and tracks the target when
\* the two differ, and records nothing and leaves the tracked state when
\* they are equal; no other resource changes.
C15_BarrierOnlyOnChange ==
    [][\A h \in ResourceHandles, state_after \in TargetStates :
          TransitionBarrier(h, state_after) /\ pc' = "running" =>
             /\ IF resources[h.index].state # state_after
                THEN /\ ret'.value = <<ResourceBarrier(h.index, resources[h.index].state,
                                                       state_after)>>
                     /\ resources'[h.index].state = state_after
                ELSE /\ ret'.value = << >>
                     /\ resources'[h.index] = resources[h.index]
             /\ \A i \in 0 .. MAX_NUM_RESOURCES :
                   i # h.index => resources'[i] = resources[i]]_vars

\* Both swap buffers have been moved from PRESENT to COPY_DEST, and the
\* last transition_barrier, to a state already tracked, recorded nothing.
C15_Witness ==
    /\ pc = "running"
    /\ ret = ReturnedValue("transition_barrier", << >>)
    /\ \A i \in 1 .. NUM_SWAP_BUFFERS :
          resources[i].ptr /\ resources[i].state = D3D12_RESOURCE_STATE_COPY_DEST

\* C16: a set_graphics_pipeline(h) that returns records the bind of h and
\* stores h in current_pipeline when h differs from current_pipeline, and
\* records nothing when it is equal; new_command_list, on its own or in the
\* flush of allocate_upload_memory, stores the invalid handle, which no
\* valid handle equals, so the bind that follows it is recorded.
C16_BindOnlyOnChange ==
    /\ [](\A h \in PipelineHandles :
             ValidPipeline(h, pipelines, pipeline_generations) => h # INVALID_PIPELINE)
    /\ [][/\ \A h \in PipelineHandles :
                SetGraphicsPipeline(h) /\ pc' = "running" =>
                   /\ IF h # current_pipeline
                      THEN ret'.value = BindPipeline(h.index) /\ current_pipeline' = h
                      ELSE ret'.value = << >> /\ current_pipeline' = current_pipeline
                   /\ current_pipeline = INVALID_PIPELINE => ret'.value # << >>
          /\ NewCommandList \/ AllocateUploadMemoryResume =>
                cmdlist' = "recording" /\ current_pipeline' = INVALID_PIPELINE]_vars

\* A pipeline was bound, the upload allocator flushed and opened the
\* command list again, and the bind of the same pipeline was recorded.
C16_Witness ==
    /\ pc = "running"
    /\ num_frames > 0
    /\ cmdlist = "recording"
    /\ ret.op = "set_graphics_pipeline"
    /\ ret.value # << >>
    /\ current_pipeline # INVALID_PIPELINE

\* In a sequence of calls, every call named first precedes every call named
\* second, and both occur.
CallsInOrder(calls, first, second) ==
    /\ \E i \in DOMAIN calls : calls[i].call = first
    /\ \E j \in DOMAIN calls : calls[j].call = second
    /\ \A i, j \in DOMAIN calls :
          calls[i].call = first /\ calls[j].call = second => i < j

\* C17, as stated: when present_frame is about to read the completed
\* value, it has incremented the counter, then signalled the fence for
\* that value, then presented.
C17_SignalBeforePresent ==
    pc = "present_frame" =>
       /\ \A i \in DOMAIN ret.value : ret.value[i].frame = num_frames
       /\ CallsInOrder(ret.value, "Signal", "Present")

\* C17, amended: present_frame increments the counter, presents, signals
\* the fence for the new counter value, and only then reads the completed
\* value: the present of frame n comes before the signal for frame n.
C17_PresentBeforeSignal ==
    /\ [](pc \in {"present_frame", "present_frame_wait"} =>
             /\ \A i \in DOMAIN ret.value : ret.value[i].frame = num_frames
             /\ CallsInOrder(ret.value, "Present", "Signal"))
    /\ [][PresentFrame =>
             /\ num_frames' = num_frames + 1
             /\ queue' = Append(queue, SignalItem(num_frames'))
             /\ fence' = fence]_vars
    /\ [][PresentFrameObserve =>
             /\ ret.op = "present_frame"
             /\ CallsInOrder(ret.value, "Present", "Signal")]_vars

\* present_frame has presented and signalled frame 2 and has not read the
\* completed value yet.
C17_Witness ==
    /\ pc = "present_frame"
    /\ num_frames = 2
    /\ ret.value = PresentFrameCalls(2)

\* The sizes of the two per-frame heaps of a frame index.
FrameHeapSizes(index) ==
    <<gpu_cbv_srv_uav_heaps[index], gpu_upload_memory_heaps[index]>>

FrameHeapSizesAfter(index) ==
    <<gpu_cbv_srv_uav_heaps'[index], gpu_upload_memory_heaps'[index]>>

PresentFrameReturns ==
    pc \in {"present_frame", "present_frame_wait"} /\ pc' = "running"

\* C18: frame_index is 0 or 1; a present_frame that returns has flipped
\* it and set to 0 the size of the shader-visible heap and of the upload
\* heap of the new frame index, and nothing else: the two heaps of the
\* other frame index, the CPU heaps, the pools and the pipeline map are as
\* they were when it was called.
C18_PresentResetsCurrentFrame ==
    /\ [](frame_index \in {0, 1})
    /\ [][/\ PresentFrameReturns =>
                /\ frame_index' = 1 - frame_index
                /\ FrameHeapSizesAfter(1 - frame_index) = <<0, 0>>
                /\ FrameHeapSizesAfter(frame_index) = FrameHeapSizes(frame_index)
                /\ UNCHANGED <<cpu_heap_vars, pool_vars>>
          /\ pc' \in {"present_frame", "present_frame_wait"} =>
                UNCHANGED <<frame_index, gpu_cbv_srv_uav_heaps,
                            gpu_upload_memory_heaps, cpu_heap_vars, pool_vars>>]_vars

\* present_frame has returned to frame index 0 for the second time: the
\* heaps of frame index 0 are empty and those of frame index 1 keep what
\* was allocated from them.
C18_Witness ==
    /\ pc = "running"
    /\ ret.op = "present_frame"
    /\ num_frames = 2
    /\ frame_index = 0
    /\ FrameHeapSizes(0) = <<0, 0>>
    /\ gpu_cbv_srv_uav_heaps[1] > 0
    /\ gpu_upload_memory_heaps[1] > 0

\* C19: finish increments num_frames and puts the signal for that value
\* in the queue; it returns only when the completed value is num_frames and
\* the queue is empty, resets the two heaps of the current frame index on
\* return and not before, and leaves frame_index and the heaps of the other
\* frame index as they were.
C19_FinishWaitsThenResets ==
    [][/\ Finish =>
             /\ num_frames' = num_frames + 1
             /\ queue' = Append(queue, SignalItem(num_frames'))
       /\ pc' = "finish" =>
             UNCHANGED <<frame_index, gpu_cbv_srv_uav_heaps, gpu_upload_memory_heaps>>
       /\ pc = "finish" /\ pc' = "running" =>
             /\ fence = num_frames /\ fence' = fence /\ num_frames' = num_frames
             /\ queue = << >>
             /\ frame_index' = frame_index
             /\ FrameHeapSizesAfter(frame_index) = <<0, 0>>
             /\ FrameHeapSizesAfter(1 - frame_index) = FrameHeapSizes(1 - frame_index)]_vars

\* finish has returned in frame index 1 with the GPU caught up; the heaps
\* of frame index 1 are empty and those of frame index 0 keep what was
\* allocated from them.
C19_Witness ==
    /\ pc = "running"
    /\ ret.op = "finish"
    /\ fence = num_frames
    /\ frame_index = 1
    /\ FrameHeapSizes(1) = <<0, 0>>
    /\ gpu_cbv_srv_uav_heaps[0] > 0
    /\ gpu_upload_memory_heaps[0] > 0

\* The last GpuMemoryHeap::allocate of the allocate_upload_memory that has
\* just ended.
RetryAfter == ret'.value.allocations[Len(ret'.value.allocations)]

C21_CpuHeapsNeverShrink ==
    [][/\ rtv_heap' >= rtv_heap
       /\ dsv_heap' >= dsv_heap
       /\ cpu_cbv_srv_uav_heap' >= cpu_cbv_srv_uav_heap]_vars

\* C22: in every slot of the pipeline pool the pipeline state and the root
\* signature are both null or both non-null; the slots that add takes for
\* occupied and the handles that validate are those with both non-null.
C22_PipelineSlotsNeverMixed ==
    /\ \A i \in 0 .. MAX_NUM_PIPELINES : pipelines[i].pso <=> pipelines[i].rsignature
    /\ \A h \in PipelineHandles :
          ValidPipeline(h, pipelines, pipeline_generations) =>
             pipelines[h.index].pso /\ pipelines[h.index].rsignature

\* A pipeline has been destroyed while another is live.
C22_Witness ==
    /\ pipelines[1] = [pso |-> FALSE, rsignature |-> FALSE]
    /\ pipeline_generations[1] > 0
    /\ pipelines[2] = [pso |-> TRUE, rsignature |-> TRUE]
    /\ ret.op = "destroy_pipeline"

\* C23: when the tracked state of a slot that is live before and after a
\* step differs, the step is a transition_barrier that recorded the barrier
\* of that slot between the two states; so no other operation changes it,
\* and transition_barrier changes it for no slot but its own.
C23_StateChangesOnlyByBarrier ==
    [][\A i \in 1 .. MAX_NUM_RESOURCES :
          /\ resources[i].ptr /\ resources'[i].ptr
          /\ resources'[i].state # resources[i].state
          => /\ ret'.op = "transition_barrier"
             /\ ret'.value = <<ResourceBarrier(i, resources[i].state,
                                               resources'[i].state)>>]_vars

\* A resource has been destroyed while the first swap buffer, moved to
\* RENDER_TARGET before, is live and still tracked in that state.
C23_Witness ==
    /\ pc = "running"
    /\ ret.op = "destroy_resource"
    /\ resources[1].ptr
    /\ resources[1].state = D3D12_RESOURCE_STATE_RENDER_TARGET

\* What a destroy step may change in a pool: the slot it destroys, whose
\* liveness marker goes from set to clear, and no other slot.
DestroyClearsOneSlot(slots, slots_after, live(_)) ==
    \A i \in DOMAIN slots :
        slots_after[i] # slots[i] =>
            /\ live(slots[i]) /\ ~live(slots_after[i])
            /\ \A j \in DOMAIN slots : j # i => slots_after[j] = slots[j]

ResourceIsLive(slot) == slot.ptr

PipelineIsLive(slot) == slot.pso \/ slot.rsignature

\* What a step may change in the generation counters: the counter of the
\* slot an add fills, by +1.
GenerationsChangeInAdd(gens, gens_after, slots, slots_after, live(_)) ==
    \A i \in DOMAIN gens :
        gens_after[i] # gens[i] =>
            /\ ret'.op \in {"create_committed_resource",
                            "create_graphics_pipeline", "create_compute_pipeline"}
            /\ ~live(slots[i]) /\ live(slots_after[i])
            /\ gens_after[i] = gens[i] + 1

\* C24: destroy_resource and destroy_pipeline clear the liveness marker of
\* the slot of their handle only, leaving every generation counter and the
\* payload of every other slot as they were.
C24_DestroyClearsOneSlot ==
    [][/\ ret'.op = "destroy_resource" =>
            /\ DestroyClearsOneSlot(resources, resources', ResourceIsLive)
            /\ UNCHANGED <<resource_generations, pipelines, pipeline_generations>>
       /\ ret'.op = "destroy_pipeline" =>
            /\ DestroyClearsOneSlot(pipelines, pipelines', PipelineIsLive)
            /\ UNCHANGED <<pipeline_generations, resources, resource_generations>>]_vars

\* C24: the generation counters change only in add, by +1 for the slot
\* being filled, and the destroys change what C24_DestroyClearsOneSlot says.
C24_GenerationsChangeOnlyInAdd ==
    [][/\ GenerationsChangeInAdd(resource_generations, resource_generations',
                                 resources, resources', ResourceIsLive)
       /\ GenerationsChangeInAdd(pipeline_generations, pipeline_generations',
                                 pipelines, pipelines', PipelineIsLive)]_vars

\* The slots of the pipeline pool that are live.
LivePipelineSlots ==
    {i \in 1 .. MAX_NUM_PIPELINES : pipelines[i].pso /\ pipelines[i].rsignature}

\* C25: the pipeline cache map is a one-to-one correspondence between its
\* keys and the live pipeline slots: every handle in it passes validation,
\* no two keys map to one handle, and every live slot is the value of
\* exactly one key.
C25_CacheMatchesLiveSlots ==
    /\ \A k \in DOMAIN pipeline_map :
          ValidPipeline(pipeline_map[k], pipelines, pipeline_generations)
    /\ \A k1, k2 \in DOMAIN pipeline_map :
          pipeline_map[k1] = pipeline_map[k2] => k1 = k2
    /\ \A i \in LivePipelineSlots :
          Cardinality({k \in DOMAIN pipeline_map : pipeline_map[k].index = i}) = 1

\* The fence value v has been signalled: its Signal is in the queue or the
\* GPU has completed it.
AlreadySignalled(v) ==
    \/ fence >= v
    \/ \E k \in 1 .. Len(queue) : queue[k] = SignalItem(v)

\* C26: the CPU is suspended in present_frame only when the GPU was two or
\* more fence values behind, waiting for the value after the completed one,
\* and in finish waiting for num_frames; the value it waits for has always
\* been signalled already; and with a GPU that completes what was
\* signalled every present_frame and every finish returns.
C26_EveryWaitReturns ==
    /\ [](pc = "present_frame_wait" =>
             /\ waiting.value + 1 <= num_frames
             /\ AlreadySignalled(waiting.value))
    /\ [](pc \in {"finish", "allocate_upload_memory"} =>
             /\ waiting.value = num_frames
             /\ AlreadySignalled(waiting.value))
    /\ [][pc' = "present_frame_wait" /\ pc # "present_frame_wait" =>
             /\ pc = "present_frame"
             /\ num_frames - fence >= 2
             /\ waiting'.value = fence + 1]_vars
    /\ (pc \in {"present_frame", "present_frame_wait"}
           ~> (pc = "running" /\ ret = Returned("present_frame", NoHandle)))
    /\ (pc = "finish" ~> (pc = "running" /\ ret = Returned("finish", NoHandle)))
    /\ (pc = "allocate_upload_memory" ~> pc \in {"running", "panicked"})

\* The CPU is suspended in present_frame and the GPU has completed the
\* value it waits for, with a later one still to complete.
C26_Witness ==
    /\ pc = "present_frame_wait"
    /\ fence >= waiting.value
    /\ fence < num_frames

\* The fence values of the Signal calls the GPU has not executed yet, in
\* the order of the queue.
RECURSIVE SignalValues(_)
SignalValues(q) ==
    IF q = << >> THEN << >>
    ELSE IF Head(q).kind = "signal"
         THEN <<Head(q).value>> \o SignalValues(Tail(q))
         ELSE SignalValues(Tail(q))

\* C27: num_frames starts at 0 and changes only by +1, in present_frame and
\* in finish (the flush of the upload allocator calls finish), each time
\* with one Signal of the new value; so the values signalled are 1, 2, 3,
\* ... in this order, each once: those the GPU has not completed are
\* fence + 1, ..., num_frames in the queue; and the completed value never
\* exceeds num_frames.
C27_FrameCounterAndSignals ==
    /\ num_frames = 0
    /\ [](/\ fence <= num_frames
          /\ SignalValues(queue) = [k \in 1 .. num_frames - fence |-> fence + k])
    /\ [][num_frames' # num_frames =>
             /\ num_frames' = num_frames + 1
             /\ \/ pc' = "present_frame" /\ ret'.op = "present_frame"
                \/ pc' = "finish" /\ ret'.op = "finish"
                \/ pc' = "allocate_upload_memory"
             /\ SignalValues(queue') = Append(SignalValues(queue), num_frames')]_vars
    /\ [][pc = "running" /\ pc' \in {"present_frame", "finish"} =>
             num_frames' = num_frames + 1]_vars

\* The counter has reached MaxFrames in a present_frame that waits, with
\* the last two values signalled and not completed.
C27_Witness ==
    /\ num_frames = MaxFrames
    /\ fence = MaxFrames - 2
    /\ pc = "present_frame_wait"
    /\ Len(SignalValues(queue)) = 2

\* C28: when the first GpuMemoryHeap::allocate of allocate_upload_memory
\* found room, the call made no flush and no second allocation: it returned
\* the addresses of that first region and left the heap one rounded region
\* larger.
C28_NoRetryWithRoom ==
    /\ ret.op = "allocate_upload_memory"
    /\ ret.value # << >>
    /\ ret.value.allocations[1].outcome = "ok"
    => /\ ret.ok
       /\ ~ret.value.flushed
       /\ Len(ret.value.allocations) = 1
       /\ ret.value.cpu_addr = ret.value.allocations[1].cpu_addr
       /\ ret.value.gpu_addr = ret.value.allocations[1].gpu_addr
       /\ gpu_upload_memory_heaps[ret.value.index] = ret.value.allocations[1].size

\* C29: in the frame protocol the frame index, and with it the allocator
\* the list is recorded against, stays from new_command_list to the
\* submission; and whenever new_command_list resets the allocator of the
\* current frame index, called by the application or by the upload flush,
\* every command list submitted under that index has a fence value and the
\* GPU has completed it.
C29_AllocatorResetAfterCompletion ==
    /\ [][cmdlist = "recording" \/ ret.op = "close" =>
             frame_index' = frame_index]_vars
    /\ [][\/ pc = "running" /\ ret'.op = "new_command_list" /\ ret' # ret
          \/ pc = "allocate_upload_memory" /\ pc' # pc
          => /\ ~in_flight[frame_index].pending
             /\ in_flight[frame_index].value <= fence]_vars

\* new_command_list has reset the allocator of a frame index under which a
\* list had been submitted, while the list of the other frame index is
\* still with the GPU.
C29_Witness ==
    /\ pc = "running"
    /\ ret.op = "new_command_list"
    /\ in_flight[frame_index].value > 0
    /\ in_flight[1 - frame_index].value > fence

\* C30: a handle returned by add never has generation 0, and never equals
\* a handle returned earlier for its slot: the one the application kept
\* when it destroyed it.
C30_GenerationNeverRepeats ==
    /\ ret.op = "create_committed_resource" /\ ret.ok =>
          /\ ret.handle.generation # 0
          /\ ret.handle # stale_resource
    /\ ret.op \in {"create_graphics_pipeline", "create_compute_pipeline"} /\ ret.ok =>
          /\ ret.handle.generation # 0
          /\ ret.handle # stale_pipeline

\* C31: destroy_pipeline never stops at the assertion of its reverse
\* lookup: a handle that passed validation is found in the cache map
\* whatever key it is cached under, the key 0 included.
C31_ReverseLookupFindsLivePipeline ==
    ~(/\ ret.op = "destroy_pipeline"
      /\ ~ret.ok
      /\ ret.fault = "assert")

\* C32: the swap buffers are the first slots of the resource pool, added
\* in state PRESENT, and their views are the first descriptors of
\* rtv_heap; a swap buffer's handle stops validating only in a
\* destroy_resource; and back_buffer returns, with back_buffer_index inside
\* the swap chain, the handle of the buffer of that index and the address
\* cpu_base + back_buffer_index * descriptor_size, where the view of that
\* same buffer was created.
C32_BackBufferAndItsView ==
    /\ \A i \in 0 .. NUM_SWAP_BUFFERS - 1 :
          /\ swap_buffers[i].index = i + 1
          /\ ValidResource(swap_buffers[i], resources, resource_generations)
          /\ resources[i + 1].state = D3D12_RESOURCE_STATE_PRESENT
          /\ render_target_views[DescriptorCpuBase("rtv") + i * descriptor_size] = i
    /\ [](back_buffer_index \in 0 .. NUM_SWAP_BUFFERS - 1)
    /\ [][\A i \in 0 .. NUM_SWAP_BUFFERS - 1 :
             /\ ValidResource(swap_buffers[i], resources, resource_generations)
             /\ ~ValidResource(swap_buffers[i], resources', resource_generations')
             => ret'.op = "destroy_resource"]_vars
    /\ [](ret.op = "back_buffer" =>
             /\ ret.handle = swap_buffers[back_buffer_index]
             /\ ret.value = DescriptorCpuBase("rtv") + back_buffer_index * descriptor_size
             /\ ret.value \in DOMAIN render_target_views
             /\ swap_buffers[render_target_views[ret.value]] = ret.handle)

\* back_buffer has returned the second swap buffer, which validates, after
\* the first one was destroyed.
C32_Witness ==
    /\ ret.op = "back_buffer"
    /\ back_buffer_index = 1
    /\ ValidResource(ret.handle, resources, resource_generations)
    /\ ~resources[1].ptr

\* The region an allocate_upload_buffer_region returned: its offset and the
\* rounded size of the request.
ReturnedRegion(v) == [offset |-> IntOf(v.offset), size |-> v.size]

\* C33: allocate_upload_buffer_region returns the upload heap of the
\* current frame index and an offset that is the CPU address minus the
\* cpu_base of that heap and a multiple of 256, with and without a flush;
\* the region from the offset on, of the rounded size, ends inside the
\* heap and overlaps no region allocated from the heap since its last
\* reset.
C33_RegionInsideHeapAndFresh ==
    [][/\ ret' # ret
       /\ ret'.op = "allocate_upload_buffer_region"
       /\ ret'.ok /\ pc' = "running"
       => LET v == ret'.value
          IN  /\ v.buffer = frame_index
              /\ v.offset.hi = 0
              /\ IntOf(v.offset) = v.cpu_addr - UploadCpuBase(v.buffer)
              /\ v.offset.lo % 256 = 0
              /\ NumberLessEq(RegionEnd(ReturnedRegion(v)), U32Of(UPLOAD_HEAP_CAPACITY))
              /\ \A r \in (IF v.flushed THEN {} ELSE upload_regions[v.buffer]) :
                    Disjoint(r, ReturnedRegion(v))]_vars

\* C34: the barriers of a live resource form a chain.  A resource starts
\* in the initial state given at its creation; every barrier emitted has
\* the tracked state of its resource before the call as StateBefore, the
\* tracked state after the call as StateAfter, and the two differ; and the
\* tracked state of a live resource changes in no step that emits no
\* barrier for it.  So each StateBefore is the StateAfter of the barrier
\* before it, or the initial state.
C34_BarriersFormChain ==
    [][/\ ret' # ret /\ ret'.op = "create_committed_resource" /\ ret'.ok =>
             /\ ~resources[ret'.handle.index].ptr
             /\ resources'[ret'.handle.index].state \in InitialStates
       /\ ret' # ret /\ ret'.op = "transition_barrier" /\ ret'.value # << >> =>
             /\ Len(ret'.value) = 1
             /\ LET barrier == ret'.value[1]
                IN  /\ resources[barrier.resource].ptr
                    /\ barrier.StateBefore = resources[barrier.resource].state
                    /\ barrier.StateAfter = resources'[barrier.resource].state
                    /\ barrier.StateBefore # barrier.StateAfter
       /\ \A i \in 1 .. MAX_NUM_RESOURCES :
             /\ resources[i].ptr /\ resources'[i].ptr
             /\ resources'[i].state # resources[i].state
             => /\ ret'.op = "transition_barrier"
                /\ ret'.value # << >>
                /\ ret'.value[1].resource = i]_vars

\* The resource created after the swap buffers has had its second barrier:
\* from RENDER_TARGET, where the first one took it, to PRESENT.
C34_Witness ==
    /\ ret.op = "transition_barrier"
    /\ ret.value = <<ResourceBarrier(NUM_SWAP_BUFFERS + 1,
                                     D3D12_RESOURCE_STATE_RENDER_TARGET,
                                     D3D12_RESOURCE_STATE_PRESENT)>>
    /\ resources[NUM_SWAP_BUFFERS + 1].state = D3D12_RESOURCE_STATE_PRESENT

SwapBuffersInPresent ==
    \A i \in 0 .. NUM_SWAP_BUFFERS - 1 :
        resources[swap_buffers[i].index].state = D3D12_RESOURCE_STATE_PRESENT

\* C35: in the frame loop of the sample every present_frame is called
\* right after the submission of the list, with every swap buffer tracked
\* in PRESENT; and each of the two transition_barrier calls of a frame
\* emits one barrier for the back buffer of the frame, the first from
\* PRESENT to RENDER_TARGET, the second, the last call before close, back
\* to PRESENT.
C35_FrameLeavesSwapBuffersInPresent ==
    /\ [][pc = "running" /\ pc' = "present_frame" =>
             /\ ret.op = "execute_command_lists"
             /\ SwapBuffersInPresent]_vars
    /\ [][ret' # ret /\ ret'.op = "transition_barrier" /\ ~InAppNew =>
             LET slot == swap_buffers[back_buffer_index].index
             IN  IF ret.op = "new_command_list"
                 THEN ret'.value = <<ResourceBarrier(slot, D3D12_RESOURCE_STATE_PRESENT,
                                         D3D12_RESOURCE_STATE_RENDER_TARGET)>>
                 ELSE ret'.value = <<ResourceBarrier(slot,
                                         D3D12_RESOURCE_STATE_RENDER_TARGET,
                                         D3D12_RESOURCE_STATE_PRESENT)>>]_vars
    /\ [][ret' # ret /\ ret'.op = "close" /\ ~InAppNew =>
             /\ ret.op = "transition_barrier"
             /\ ret.value # << >>
             /\ ret.value[1].StateAfter = D3D12_RESOURCE_STATE_PRESENT]_vars

\* The second frame of the loop has reached its present_frame, with the
\* second swap buffer as its back buffer.
C35_Witness ==
    /\ pc = "present_frame"
    /\ back_buffer_index = 1
    /\ num_frames = MaxFrames
    /\ SwapBuffersInPresent


DescriptorAllocations ==
    {"allocate_cpu_descriptors", "allocate_gpu_descriptors",
     "copy_descriptors_to_gpu_heap"}

\* C36: a descriptor allocation that returns hands out the range that
\* starts at the heap's size before the call, which is where the ranges
\* handed out since the heap's last reset end (0 for the first), so that
\* the ranges of one reset period are contiguous and pairwise disjoint; on
\* a shader-visible heap the CPU handle and the GPU handle returned are at
\* the same offset from cpu_base and gpu_base; and a
\* copy_descriptors_to_gpu_heap that follows another one returns the GPU
\* handle right after the descriptors of the one before.
C36_RangesContiguousAndDisjoint ==
    [][ret' # ret /\ ret'.op \in DescriptorAllocations /\ ret'.ok =>
          LET range == ret'.value
          IN  /\ range.first = DescriptorHeapSize(range.heap)
              /\ U32Of(range.first) = descriptors_allocated[range.heap]
              /\ range.cpu_handle - DescriptorCpuBase(range.heap)
                     = range.first * descriptor_size
              /\ DescriptorGpuBase(range.heap) # 0 =>
                     range.gpu_handle - DescriptorGpuBase(range.heap)
                        = range.cpu_handle - DescriptorCpuBase(range.heap)
              /\ (/\ ret.op = "copy_descriptors_to_gpu_heap" /\ ret.ok
                  /\ ret'.op = "copy_descriptors_to_gpu_heap") =>
                     /\ range.heap = ret.value.heap
                     /\ U32Of(range.gpu_handle) =
                            NumberAdd(ret.value.gpu_handle,
                                      U32(ret.value.num.hi * descriptor_size
                                             + (ret.value.num.lo * descriptor_size)
                                                  \div HALF,
                                          (ret.value.num.lo * descriptor_size)
                                             % HALF))]_vars


FrameHeapAllocations ==
    {"allocate_gpu_descriptors", "copy_descriptors_to_gpu_heap",
     "allocate_upload_memory", "allocate_upload_buffer_region"}

\* A step of one of the four allocating calls: the call from its start to
\* its return or to the wait of its flush, or the end of that wait.
FrameHeapAllocationStep ==
    \/ pc = "running" /\ ret' # ret /\ ret'.op \in FrameHeapAllocations
    \/ pc = "running" /\ pc' \in {"allocate_upload_memory", "allocate_upload_buffer_region"}
    \/ /\ pc \in {"allocate_upload_memory", "allocate_upload_buffer_region"}
       /\ pc' # pc

\* C37: no step of allocate_gpu_descriptors, copy_descriptors_to_gpu_heap,
\* allocate_upload_memory or allocate_upload_buffer_region, the flush and
\* the retry included, changes the frame index, the heaps of the other
\* frame index or the heaps that belong to no frame.
C37_OtherFrameHeapsUntouched ==
    [][FrameHeapAllocationStep =>
          LET other == 1 - frame_index
          IN  /\ frame_index' = frame_index
              /\ gpu_cbv_srv_uav_heaps'[other] = gpu_cbv_srv_uav_heaps[other]
              /\ gpu_upload_memory_heaps'[other] = gpu_upload_memory_heaps[other]
              /\ descriptors_allocated'[GpuHeapName(other)]
                     = descriptors_allocated[GpuHeapName(other)]
              /\ upload_regions'[other] = upload_regions[other]
              /\ UNCHANGED cpu_heap_vars]_vars

\* An upload buffer region has been handed out from the heap of frame
\* index 1 after a flush, while both heaps of frame index 0 hold what was
\* allocated from them.
C37_Witness ==
    /\ frame_index = 1
    /\ pc = "running"
    /\ ret.op = "allocate_upload_buffer_region" /\ ret.ok
    /\ ret.value # << >>
    /\ ret.value.flushed
    /\ gpu_cbv_srv_uav_heaps[0] > 0
    /\ gpu_upload_memory_heaps[0] > 0

=============================================================================
